---- MODULE Spec2Model ----
(***************************************************************************)
(* A model of the vyos-api gateway: REST handlers that translate resource  *)
(* requests into ordered get/set/delete calls against a VyOS device's      *)
(* configuration tree, and normalize what the device answers.              *)
(*                                                                         *)
(* A Go string is a sequence of atoms; the atom " " is whitespace and      *)
(* every other atom is a run of non-whitespace characters.  The empty Go   *)
(* string is << >>.                                                        *)
(***************************************************************************)
EXTENDS Integers, Sequences, FiniteSets, TLC

VARIABLES
    cur,     \* the request being served (handler, device id, vars, body)
    pc,      \* number of remote calls this handler has issued and handled
    calls,   \* the remote calls of this request, in issue order
    last,    \* what the device answered to the latest call (wire level)
    acc,     \* the result slice a List handler is building
    resp,    \* the HTTP response written, status 0 while none is written
    store,   \* the configuration held by the device: a set of paths
    ctx,     \* the inbound request's context, and whether the call in flight
             \* waits on a device that does not answer
    fn,      \* the normalizer function applied on its own, "none" before
    arg,     \* the input given to that function
    ret      \* what the function returned

vars == <<cur, pc, calls, last, acc, resp, store, ctx, fn, arg, ret>>

(* the state of serving requests, and the state of a function applied on    *)
(* its own                                                                  *)
servevars == <<cur, pc, calls, last, acc, resp, store, ctx>>
fnvars == <<fn, arg, ret>>

----------------------------------------------------------------------------
(* Bounds of the model. *)

MaxAddrs == 2        \* longest address list of a request body
MaxOptional == 2     \* most optional fields a NAT or DHCP request sets
MaxList == 3         \* longest list node given to a normalizer on its own

----------------------------------------------------------------------------
(* Go strings, fmt.Sprintf, strings.Fields, strings.Contains. *)

SP == " "

S(w) == <<w>>

RECURSIVE Words(_)
Words(ws) ==
    IF Len(ws) = 0 THEN << >>
    ELSE IF Len(ws) = 1 THEN <<ws[1]>>
    ELSE <<ws[1], SP>> \o Words(Tail(ws))

Itoa(n) == <<ToString(n)>>

(* fmt.Sprintf over a format whose verbs are the atoms "%s" and "%d". *)
RECURSIVE Sprintf(_, _)
Sprintf(format, args) ==
    IF Len(format) = 0 THEN << >>
    ELSE IF Head(format) = "%s"
         THEN Head(args) \o Sprintf(Tail(format), Tail(args))
    ELSE IF Head(format) = "%d"
         THEN Itoa(Head(args)) \o Sprintf(Tail(format), Tail(args))
    ELSE <<Head(format)>> \o Sprintf(Tail(format), args)

(* strings.Fields: the maximal runs of non-whitespace atoms. *)
RECURSIVE FieldsFrom(_, _)
FieldsFrom(str, tok) ==
    IF Len(str) = 0
    THEN IF Len(tok) = 0 THEN << >> ELSE <<tok>>
    ELSE IF Head(str) = SP
         THEN (IF Len(tok) = 0 THEN << >> ELSE <<tok>>) \o FieldsFrom(Tail(str), << >>)
         ELSE FieldsFrom(Tail(str), Append(tok, Head(str)))

Fields(str) == FieldsFrom(str, << >>)

(* strings.Split on the single space: a segment per separator, empty ones   *)
(* included                                                                 *)
RECURSIVE SplitFrom(_, _)
SplitFrom(str, tok) ==
    IF Len(str) = 0 THEN <<tok>>
    ELSE IF Head(str) = SP THEN <<tok>> \o SplitFrom(Tail(str), << >>)
    ELSE SplitFrom(Tail(str), Append(tok, Head(str)))

(* pathToArr splitting at every space *)
pathToArr_SplitOnSpace(path) == IF path = << >> THEN << >> ELSE SplitFrom(path, << >>)

(* pathToArr keeping the path as one segment *)
pathToArr_Unsplit(path) == IF path = << >> THEN << >> ELSE <<path>>

pathToArr(path) == IF path = << >> THEN << >> ELSE Fields(path)

Contains(str, sub) ==
    \E i \in 0..(Len(str) - Len(sub)) :
        \A j \in 1..Len(sub) : str[i + j] = sub[j]

TrimSpaceLeft(str) ==
    LET idx == {i \in 1..Len(str) : str[i] # SP}
    IN IF idx = {} THEN << >>
       ELSE LET lo == CHOOSE i \in idx : \A k \in idx : i <= k
            IN SubSeq(str, lo, Len(str))

TrimSpace(str) ==
    LET idx == {i \in 1..Len(str) : str[i] # SP}
    IN IF idx = {} THEN << >>
       ELSE LET lo == CHOOSE i \in idx : \A k \in idx : i <= k
                hi == CHOOSE i \in idx : \A k \in idx : i >= k
            IN SubSeq(str, lo, hi)

(* strconv.Atoi on the path variables the model sends. *)
Numerals == ("10" :> 10) @@ ("20" :> 20) @@ ("100" :> 100)

AtoiOK(str) == Len(str) = 1 /\ str[1] \in DOMAIN Numerals

Atoi(str) == IF AtoiOK(str) THEN Numerals[str[1]] ELSE 0

----------------------------------------------------------------------------
(* Go slices of strings (nil or not) and the JSON values handlers write. *)

NilSlice == [nil |-> TRUE, elems |-> << >>]
Slice(xs) == [nil |-> FALSE, elems |-> xs]
GoLen(sl) == Len(sl.elems)

EmptyObj == [k \in {} |-> 0]

JNull == [j |-> "null"]
JStr(str) == [j |-> "string", s |-> str]
JNum(n) == [j |-> "number", n |-> n]
JBool(b) == [j |-> "bool", b |-> b]
JArr(xs) == [j |-> "array", a |-> xs]
JObj(o) == [j |-> "object", o |-> o]

(* encoding/json of a []string: a nil slice encodes as null. *)
JStrings(sl) == IF sl.nil THEN JNull ELSE JArr([i \in 1..Len(sl.elems) |-> JStr(sl.elems[i])])

Field(k, v) == k :> v

(* a string field tagged omitempty *)
OmitEmpty(k, str) == IF str = << >> THEN EmptyObj ELSE k :> JStr(str)

(* a bool field tagged omitempty *)
OmitFalse(k, b) == IF b THEN k :> JBool(TRUE) ELSE EmptyObj

(* a []string field tagged omitempty: omitted when the slice has no element *)
OmitEmptySlice(k, sl) == IF GoLen(sl) = 0 THEN EmptyObj ELSE k :> JStrings(sl)

----------------------------------------------------------------------------
(* The untyped tree the device returns as data. *)

TNull == [t |-> "null"]
TStr(str) == [t |-> "str", s |-> str]
TList(xs) == [t |-> "list", l |-> xs]
TMap(m) == [t |-> "map", m |-> m]
TNum(n) == [t |-> "num", n |-> n]

(* v.(map[string]interface{}) with the ok result discarded: nil map otherwise *)
AsMap(v) == IF v.t = "map" THEN v.m ELSE EmptyObj
IsMap(v) == v.t = "map"
(* m[k] on a possibly nil map *)
Index(m, k) == IF k \in DOMAIN m THEN m[k] ELSE TNull
Has(m, k) == k \in DOMAIN m
(* v.(string) with the ok result discarded *)
AsStr(v) == IF v.t = "str" THEN v.s ELSE << >>

RECURSIVE StringsOf(_)
StringsOf(xs) ==
    IF Len(xs) = 0 THEN << >>
    ELSE (IF Head(xs).t = "str" THEN <<Head(xs).s>> ELSE << >>) \o StringsOf(Tail(xs))

(* toStringSlice handing back a nil slice for a value of any other shape *)
toStringSlice_DefaultNil(v) ==
    IF v.t = "str" THEN Slice(<<v.s>>)
    ELSE IF v.t = "list" THEN Slice(StringsOf(v.l))
    ELSE NilSlice

toStringSlice(v) ==
    IF v.t = "str" THEN Slice(<<v.s>>)
    ELSE IF v.t = "list" THEN Slice(StringsOf(v.l))
    ELSE Slice(<< >>)

----------------------------------------------------------------------------
(* The device's HTTP answer and the client that reads it. *)

NoErr == << >>

ErrRefused == Words(<<"dial", "tcp:", "connection", "refused">>)
ErrCanceled == Words(<<"context", "canceled">>)
ErrDecode == Words(<<"invalid", "character", "'<'", "looking", "for", "beginning", "of", "value">>)
httpStatusError(code) == Words(<<"vyos", "api:", "unexpected", "status">>) \o <<SP, ToString(code)>>

MsgEmpty == Words(<<"Configuration", "under", "specified", "path", "is", "empty">>)
MsgNoPath == Words(<<"Path", "does", "not", "exist">>)
MsgInternal == Words(<<"internal", "VyOS", "error">>)

NoEnvelope == [nil |-> TRUE, Success |-> FALSE, Data |-> TNull, Error |-> << >>]

Wire(net, status, json, success, data, error) ==
    [net |-> net, status |-> status, json |-> json,
     success |-> success, data |-> data, error |-> error]

NoWire == Wire("none", 0, FALSE, FALSE, TNull, << >>)

(* Client.post without the status check *)
post_StatusUnchecked(w) ==
    IF w.net = "canceled" THEN [out |-> NoEnvelope, err |-> ErrCanceled]
    ELSE IF w.net # "ok" THEN [out |-> NoEnvelope, err |-> ErrRefused]
    ELSE IF ~w.json THEN [out |-> NoEnvelope, err |-> ErrDecode]
    ELSE [out |-> [nil |-> FALSE, Success |-> w.success, Data |-> w.data, Error |-> w.error],
          err |-> NoErr]

(* Client.post with the status checked before the body is decoded *)
post_StatusBeforeDecode(w) ==
    IF w.net = "canceled" THEN [out |-> NoEnvelope, err |-> ErrCanceled]
    ELSE IF w.net # "ok" THEN [out |-> NoEnvelope, err |-> ErrRefused]
    ELSE IF w.status # 200 THEN [out |-> NoEnvelope, err |-> httpStatusError(w.status)]
    ELSE IF ~w.json THEN [out |-> NoEnvelope, err |-> ErrDecode]
    ELSE [out |-> [nil |-> FALSE, Success |-> w.success, Data |-> w.data, Error |-> w.error],
          err |-> NoErr]

(* Client.post: transport, then body decoding, then the status check. *)
post(w) ==
    IF w.net = "canceled" THEN [out |-> NoEnvelope, err |-> ErrCanceled]
    ELSE IF w.net # "ok" THEN [out |-> NoEnvelope, err |-> ErrRefused]
    ELSE IF ~w.json THEN [out |-> NoEnvelope, err |-> ErrDecode]
    ELSE LET out == [nil |-> FALSE, Success |-> w.success, Data |-> w.data, Error |-> w.error]
         IN IF w.status # 200
            THEN [out |-> out, err |-> httpStatusError(w.status)]
            ELSE [out |-> out, err |-> NoErr]

(* Conf.Get, Conf.Set, Conf.Delete: the envelope is dropped on an error. *)
ConfCall(w) ==
    LET r == post(w)
    IN IF r.err # NoErr THEN [out |-> NoEnvelope, err |-> r.err]
       ELSE [out |-> r.out, err |-> NoErr]

errMsg(e) == e

----------------------------------------------------------------------------
(* Map iteration.  Go ranges over a map in an unspecified order; the device *)
(* side of a call picks the direction in which the keys are visited.        *)

KeyOrder == <<"10", "20", "100", "A", "B", "MGMT", "PROD", "name", "rule", "route",
              "address-group", "shared-network-name", "filter", "ethernet", "bonding",
              "eth0", "eth1", "bond0", "10.0.0.1", "10.0.0.2", "0", "1",
              "10.0.0.0/8", "10.1.0.0/24", "x", "table", "description", "address">>

Rank(k) == CHOOSE i \in 1..Len(KeyOrder) : KeyOrder[i] = k

RECURSIVE SortKeys(_, _)
SortKeys(ks, ord) ==
    IF ks = {} THEN << >>
    ELSE LET k == CHOOSE x \in ks : \A y \in ks :
                      IF ord = "fwd" THEN Rank(x) <= Rank(y) ELSE Rank(x) >= Rank(y)
         IN <<k>> \o SortKeys(ks \ {k}, ord)

(* the keys of m in the order a range statement visits them *)
Range(m, ord) == SortKeys(DOMAIN m, ord)

Orders == {"fwd", "rev"}

----------------------------------------------------------------------------
(* A handler as the ordered remote calls it issues and how it reads each    *)
(* result.  mode names the error handling the code applies to the call:     *)
(*   fatal      err -> 502, !out.Success -> 422                             *)
(*   get        err -> 502, !out.Success -> 404                             *)
(*   ignore     the result is discarded                                     *)
(*   errOnly    err -> 502, out.Success is not read                         *)
(*   listEmpty  err -> 502, !out.Success -> 200 [] if "empty" else 422      *)
(*   list400    err -> 200 [] if "unexpected status 400" else 502,          *)
(*              !out.Success -> 422 unless the error holds "empty"          *)
(*   named      ListPolicies' first get: as list400 without the 400 case    *)
(*   chain      ListPolicies' base chain gets: skipped on any failure       *)

Step(op, path, mode) == [op |-> op, path |-> path, mode |-> mode]

If(cond, steps) == IF cond THEN steps ELSE << >>

Reply(status, body) == [status |-> status, body |-> body]
NoResp == Reply(0, JNull)
NoBody == [j |-> "none"]

(* writeError: {"error": message} *)
writeError(status) == Reply(status, JObj(Field("error", JStr(S("error")))))

StatusBadGateway == 502
StatusUnprocessableEntity == 422
StatusNotFound == 404
StatusBadRequest == 400
StatusOK == 200
StatusCreated == 201
StatusNoContent == 204

Continue == Reply(-1, JNull)

(* the checks of a call's result with the logical flag looked at before the *)
(* error                                                                    *)
Handle_FlagFirst(mode, r) ==
    IF mode \in {"ignore", "chain"} THEN Continue
    ELSE IF ~r.out.Success /\ mode \in {"fatal", "get"}
         THEN writeError(IF mode = "get" THEN StatusNotFound ELSE StatusUnprocessableEntity)
    ELSE IF r.err # NoErr THEN writeError(StatusBadGateway)
    ELSE IF mode \in {"fatal", "get", "errOnly"} \/ r.out.Success THEN Continue
    ELSE IF Contains(errMsg(r.out.Error), S("empty"))
         THEN (IF mode = "listEmpty" THEN Reply(StatusOK, JArr(<< >>)) ELSE Continue)
    ELSE writeError(StatusUnprocessableEntity)

Handle(mode, r) ==
    CASE mode = "fatal" ->
            IF r.err # NoErr THEN writeError(StatusBadGateway)
            ELSE IF ~r.out.Success THEN writeError(StatusUnprocessableEntity)
            ELSE Continue
      [] mode = "get" ->
            IF r.err # NoErr THEN writeError(StatusBadGateway)
            ELSE IF ~r.out.Success THEN writeError(StatusNotFound)
            ELSE Continue
      [] mode = "ignore" -> Continue
      [] mode = "errOnly" ->
            IF r.err # NoErr THEN writeError(StatusBadGateway) ELSE Continue
      [] mode = "listEmpty" ->
            IF r.err # NoErr THEN writeError(StatusBadGateway)
            ELSE IF ~r.out.Success
                 THEN IF Contains(r.out.Error, S("empty"))
                      THEN Reply(StatusOK, JArr(<< >>))
                      ELSE writeError(StatusUnprocessableEntity)
            ELSE Continue
      [] mode = "list400" ->
            IF r.err # NoErr
            THEN IF Contains(r.err, Words(<<"unexpected", "status", "400">>))
                 THEN Reply(StatusOK, JArr(<< >>))
                 ELSE writeError(StatusBadGateway)
            ELSE IF r.out.Success THEN Continue
            ELSE IF ~Contains(errMsg(r.out.Error), S("empty"))
                 THEN writeError(StatusUnprocessableEntity)
            ELSE Continue
      [] mode = "named" ->
            IF r.err # NoErr THEN writeError(StatusBadGateway)
            ELSE IF r.out.Success THEN Continue
            ELSE IF ~Contains(errMsg(r.out.Error), S("empty"))
                 THEN writeError(StatusUnprocessableEntity)
            ELSE Continue
      [] mode = "chain" -> Continue

(* A handler's plan: bad = the request fails validation (400), steps = the  *)
(* remote calls in order, reply = the response once every step is through.  *)
Plan(bad, steps, reply) == [bad |-> bad, steps |-> steps, reply |-> reply]

----------------------------------------------------------------------------
(* handlers/vrfs.go *)

(* VRFInfo with the description field written even when it is empty *)
VRFInfo_DescriptionAlways(name, table, desc) ==
    JObj(Field("name", JStr(name)) @@ Field("table", JStr(table))
         @@ Field("description", JStr(desc)))

VRFInfo(name, table, desc) ==
    JObj(Field("name", JStr(name)) @@ Field("table", JStr(table))
         @@ OmitEmpty("description", desc))

(* one representation per key of the listed collection *)
VRFItems(vrfMap, ord) ==
    LET ks == Range(vrfMap, ord)
    IN [i \in 1..Len(ks) |->
           LET cfg == AsMap(vrfMap[ks[i]])
           IN VRFInfo(S(ks[i]), AsStr(Index(cfg, "table")), AsStr(Index(cfg, "description")))]

Unwrap(rawMap, key) ==
    IF IsMap(Index(rawMap, key)) THEN Index(rawMap, key).m ELSE rawMap

(* ListVRFs fetching the collection a second time *)
ListVRFs_FetchTwice(req, out, ord) ==
    Plan(FALSE,
         <<Step("get", Words(<<"vrf", "name">>), "fatal"),
           Step("get", Words(<<"vrf", "name">>), "fatal")>>,
         Reply(StatusOK, JArr(VRFItems(Unwrap(AsMap(out.Data), "name"), ord))))

ListVRFs(req, out, ord) ==
    Plan(FALSE,
         <<Step("get", Words(<<"vrf", "name">>), "fatal")>>,
         Reply(StatusOK, JArr(VRFItems(Unwrap(AsMap(out.Data), "name"), ord))))

(* CreateVRF with the result of the anchor set discarded *)
CreateVRF_AnchorUnchecked(req, out, ord) ==
    Plan(~req.bodyOK \/ req.body.name = << >> \/ req.body.table = << >>,
         <<Step("set", Sprintf(Words(<<"vrf", "name", "%s", "table", "%s">>),
                               <<req.body.name, req.body.table>>), "ignore")>>
         \o If(req.body.description # << >>,
               <<Step("set", Sprintf(Words(<<"vrf", "name", "%s", "description", "%s">>),
                                     <<req.body.name, req.body.description>>), "ignore")>>),
         Reply(StatusCreated, VRFInfo(req.body.name, req.body.table, req.body.description)))

(* CreateVRF without the test that table is given *)
CreateVRF_TableNotRequired(req, out, ord) ==
    Plan(~req.bodyOK \/ req.body.name = << >>,
         <<Step("set", Sprintf(Words(<<"vrf", "name", "%s", "table", "%s">>),
                               <<req.body.name, req.body.table>>), "fatal")>>
         \o If(req.body.description # << >>,
               <<Step("set", Sprintf(Words(<<"vrf", "name", "%s", "description", "%s">>),
                                     <<req.body.name, req.body.description>>), "ignore")>>),
         Reply(StatusCreated, VRFInfo(req.body.name, req.body.table, req.body.description)))

(* CreateVRF with the anchor path built without the keyword table *)
CreateVRF_AnchorWithoutKeyword(req, out, ord) ==
    Plan(~req.bodyOK \/ req.body.name = << >> \/ req.body.table = << >>,
         <<Step("set", Sprintf(Words(<<"vrf", "name", "%s", "%s">>),
                               <<req.body.name, req.body.table>>), "fatal")>>
         \o If(req.body.description # << >>,
               <<Step("set", Sprintf(Words(<<"vrf", "name", "%s", "description", "%s">>),
                                     <<req.body.name, req.body.description>>), "ignore")>>),
         Reply(StatusCreated, VRFInfo(req.body.name, req.body.table, req.body.description)))

(* CreateVRF trying its anchor set a second time *)
CreateVRF_Retrying(req, out, ord) ==
    Plan(~req.bodyOK \/ req.body.name = << >> \/ req.body.table = << >>,
         <<Step("set", Sprintf(Words(<<"vrf", "name", "%s", "table", "%s">>),
                               <<req.body.name, req.body.table>>), "ignore"),
           Step("set", Sprintf(Words(<<"vrf", "name", "%s", "table", "%s">>),
                               <<req.body.name, req.body.table>>), "fatal")>>
         \o If(req.body.description # << >>,
               <<Step("set", Sprintf(Words(<<"vrf", "name", "%s", "description", "%s">>),
                                     <<req.body.name, req.body.description>>), "ignore")>>),
         Reply(StatusCreated, VRFInfo(req.body.name, req.body.table, req.body.description)))

CreateVRF(req, out, ord) ==
    Plan(~req.bodyOK \/ req.body.name = << >> \/ req.body.table = << >>,
         <<Step("set", Sprintf(Words(<<"vrf", "name", "%s", "table", "%s">>),
                               <<req.body.name, req.body.table>>), "fatal")>>
         \o If(req.body.description # << >>,
               <<Step("set", Sprintf(Words(<<"vrf", "name", "%s", "description", "%s">>),
                                     <<req.body.name, req.body.description>>), "ignore")>>),
         Reply(StatusCreated, VRFInfo(req.body.name, req.body.table, req.body.description)))

(* GetVRF answering a rejected get like a rejected mutation *)
GetVRF_RejectedAsMutation(req, out, ord) ==
    Plan(FALSE,
         <<Step("get", Sprintf(Words(<<"vrf", "name", "%s">>), <<req.vars.vrf>>), "fatal")>>,
         Reply(StatusOK, VRFInfo(req.vars.vrf,
                                 AsStr(Index(AsMap(out.Data), "table")),
                                 AsStr(Index(AsMap(out.Data), "description")))))

GetVRF(req, out, ord) ==
    Plan(FALSE,
         <<Step("get", Sprintf(Words(<<"vrf", "name", "%s">>), <<req.vars.vrf>>), "get")>>,
         Reply(StatusOK, VRFInfo(req.vars.vrf,
                                 AsStr(Index(AsMap(out.Data), "table")),
                                 AsStr(Index(AsMap(out.Data), "description")))))

UpdateVRF(req, out, ord) ==
    Plan(~req.bodyOK,
         If(req.body.table # << >>,
            <<Step("set", Sprintf(Words(<<"vrf", "name", "%s", "table", "%s">>),
                                  <<req.vars.vrf, req.body.table>>), "fatal")>>)
         \o If(req.body.description # << >>,
               <<Step("set", Sprintf(Words(<<"vrf", "name", "%s", "description", "%s">>),
                                     <<req.vars.vrf, req.body.description>>), "fatal")>>)
         \o <<Step("get", Sprintf(Words(<<"vrf", "name", "%s">>), <<req.vars.vrf>>), "errOnly")>>,
         Reply(StatusOK, VRFInfo(req.vars.vrf,
                                 AsStr(Index(AsMap(out.Data), "table")),
                                 AsStr(Index(AsMap(out.Data), "description")))))

DeleteVRF(req, out, ord) ==
    Plan(FALSE,
         <<Step("delete", Sprintf(Words(<<"vrf", "name", "%s">>), <<req.vars.vrf>>), "fatal")>>,
         Reply(StatusNoContent, NoBody))

----------------------------------------------------------------------------
(* handlers/vlans.go *)

RECURSIVE Concat(_)
Concat(seqs) == IF Len(seqs) = 0 THEN << >> ELSE Head(seqs) \o Concat(Tail(seqs))

VLANInfo(iface, type, vlanID, addrs, desc) ==
    JObj(Field("interface", JStr(iface)) @@ Field("type", JStr(type))
         @@ Field("vlan_id", JNum(vlanID)) @@ Field("addresses", JStrings(addrs))
         @@ OmitEmpty("description", desc))

VifItems(ifType, ifName, cfg, ord) ==
    IF ~IsMap(Index(cfg, "vif")) THEN << >>
    ELSE LET vifMap == Index(cfg, "vif").m
             ks == Range(vifMap, ord)
         IN Concat([i \in 1..Len(ks) |->
                IF ~AtoiOK(S(ks[i])) THEN << >>
                ELSE LET vifCfg == AsMap(vifMap[ks[i]])
                     IN <<VLANInfo(S(ifName), S(ifType), Atoi(S(ks[i])),
                                   toStringSlice(Index(vifCfg, "address")),
                                   AsStr(Index(vifCfg, "description")))>>])

VLANItems(ifaceMap, ord) ==
    LET ts == Range(ifaceMap, ord)
    IN Concat([i \in 1..Len(ts) |->
           LET ifaces == AsMap(ifaceMap[ts[i]])
               ns == Range(ifaces, ord)
           IN Concat([n \in 1..Len(ns) |->
                  VifItems(ts[i], ns[n], AsMap(ifaces[ns[n]]), ord)])])

ListVLANs(req, out, ord) ==
    Plan(FALSE,
         <<Step("get", S("interfaces"), "fatal")>>,
         Reply(StatusOK, JArr(VLANItems(AsMap(out.Data), ord))))

VifPath == Words(<<"interfaces", "%s", "%s", "vif", "%d">>)

CreateVLAN(req, out, ord) ==
    LET b == req.body
    IN Plan(~req.bodyOK \/ b.interface = << >> \/ b.type = << >> \/ b.vlan_id = 0,
            (IF b.address # << >>
             THEN <<Step("set", Sprintf(VifPath \o <<SP, "address", SP, "%s">>,
                                        <<b.type, b.interface, b.vlan_id, b.address>>), "fatal")>>
             ELSE <<Step("set", Sprintf(VifPath, <<b.type, b.interface, b.vlan_id>>), "fatal")>>)
            \o If(b.description # << >>,
                  <<Step("set", Sprintf(VifPath \o <<SP, "description", SP, "%s">>,
                                        <<b.type, b.interface, b.vlan_id, b.description>>),
                         "ignore")>>),
            Reply(StatusCreated,
                  VLANInfo(b.interface, b.type, b.vlan_id,
                           IF b.address # << >> THEN Slice(<<b.address>>) ELSE Slice(<< >>),
                           b.description)))

QueryType(req) == IF req.query = << >> THEN S("ethernet") ELSE req.query

GetVLAN(req, out, ord) ==
    LET cfg == AsMap(out.Data)
    IN Plan(~AtoiOK(req.vars.vlan_id),
            <<Step("get", Sprintf(VifPath, <<QueryType(req), req.vars.interface,
                                            Atoi(req.vars.vlan_id)>>), "get")>>,
            Reply(StatusOK,
                  VLANInfo(req.vars.interface, QueryType(req), Atoi(req.vars.vlan_id),
                           toStringSlice(Index(cfg, "address")),
                           AsStr(Index(cfg, "description")))))

(* UpdateVLAN with the outcome of its delete checked like that of a set *)
UpdateVLAN_DeleteChecked(req, out, ord) ==
    LET b == req.body
        type == IF b.type = << >> THEN S("ethernet") ELSE b.type
        id == Atoi(req.vars.vlan_id)
    IN Plan(~AtoiOK(req.vars.vlan_id) \/ ~req.bodyOK,
            If(b.address # << >>,
               <<Step("delete", Sprintf(VifPath \o <<SP, "address">>,
                                        <<type, req.vars.interface, id>>), "fatal"),
                 Step("set", Sprintf(VifPath \o <<SP, "address", SP, "%s">>,
                                     <<type, req.vars.interface, id, b.address>>), "fatal")>>)
            \o If(b.description # << >>,
                  <<Step("set", Sprintf(VifPath \o <<SP, "description", SP, "%s">>,
                                        <<type, req.vars.interface, id, b.description>>),
                         "ignore")>>),
            Reply(StatusOK,
                  VLANInfo(req.vars.interface, type, id,
                           IF b.address # << >> THEN Slice(<<b.address>>) ELSE Slice(<< >>),
                           b.description)))

UpdateVLAN(req, out, ord) ==
    LET b == req.body
        type == IF b.type = << >> THEN S("ethernet") ELSE b.type
        id == Atoi(req.vars.vlan_id)
    IN Plan(~AtoiOK(req.vars.vlan_id) \/ ~req.bodyOK,
            If(b.address # << >>,
               <<Step("delete", Sprintf(VifPath \o <<SP, "address">>,
                                        <<type, req.vars.interface, id>>), "ignore"),
                 Step("set", Sprintf(VifPath \o <<SP, "address", SP, "%s">>,
                                     <<type, req.vars.interface, id, b.address>>), "fatal")>>)
            \o If(b.description # << >>,
                  <<Step("set", Sprintf(VifPath \o <<SP, "description", SP, "%s">>,
                                        <<type, req.vars.interface, id, b.description>>),
                         "ignore")>>),
            Reply(StatusOK,
                  VLANInfo(req.vars.interface, type, id,
                           IF b.address # << >> THEN Slice(<<b.address>>) ELSE Slice(<< >>),
                           b.description)))

DeleteVLAN(req, out, ord) ==
    Plan(~AtoiOK(req.vars.vlan_id),
         <<Step("delete", Sprintf(VifPath, <<QueryType(req), req.vars.interface,
                                            Atoi(req.vars.vlan_id)>>), "fatal")>>,
         Reply(StatusNoContent, NoBody))

----------------------------------------------------------------------------
(* handlers/networks.go *)

NetworkInfo(iface, type, addrs, desc) ==
    JObj(Field("interface", JStr(iface)) @@ Field("type", JStr(type))
         @@ Field("addresses", JStrings(addrs)) @@ OmitEmpty("description", desc))

NetworkItems(ifaceMap, ord) ==
    LET ts == Range(ifaceMap, ord)
    IN Concat([i \in 1..Len(ts) |->
           LET ifaces == AsMap(ifaceMap[ts[i]])
               ns == Range(ifaces, ord)
           IN [n \in 1..Len(ns) |->
                  LET cfg == AsMap(ifaces[ns[n]])
                  IN NetworkInfo(S(ns[n]), S(ts[i]),
                                 toStringSlice(Index(cfg, "address")),
                                 AsStr(Index(cfg, "description")))]])

ListNetworks(req, out, ord) ==
    Plan(FALSE,
         <<Step("get", S("interfaces"), "fatal")>>,
         Reply(StatusOK, JArr(NetworkItems(AsMap(out.Data), ord))))

(* CreateNetwork with the description set checked like the anchor *)
CreateNetwork_DescriptionChecked(req, out, ord) ==
    LET b == req.body
    IN Plan(~req.bodyOK \/ b.interface = << >> \/ b.type = << >> \/ b.address = << >>,
            <<Step("set", Sprintf(Words(<<"interfaces", "%s", "%s", "address", "%s">>),
                                  <<b.type, b.interface, b.address>>), "fatal")>>
            \o If(b.description # << >>,
                  <<Step("set", Sprintf(Words(<<"interfaces", "%s", "%s", "description", "%s">>),
                                        <<b.type, b.interface, b.description>>), "fatal")>>),
            Reply(StatusCreated,
                  NetworkInfo(b.interface, b.type, Slice(<<b.address>>), b.description)))

CreateNetwork(req, out, ord) ==
    LET b == req.body
    IN Plan(~req.bodyOK \/ b.interface = << >> \/ b.type = << >> \/ b.address = << >>,
            <<Step("set", Sprintf(Words(<<"interfaces", "%s", "%s", "address", "%s">>),
                                  <<b.type, b.interface, b.address>>), "fatal")>>
            \o If(b.description # << >>,
                  <<Step("set", Sprintf(Words(<<"interfaces", "%s", "%s", "description", "%s">>),
                                        <<b.type, b.interface, b.description>>), "ignore")>>),
            Reply(StatusCreated,
                  NetworkInfo(b.interface, b.type, Slice(<<b.address>>), b.description)))

GetNetwork(req, out, ord) ==
    LET cfg == AsMap(out.Data)
    IN Plan(FALSE,
            <<Step("get", Sprintf(Words(<<"interfaces", "%s", "%s">>),
                                  <<QueryType(req), req.vars.interface>>), "get")>>,
            Reply(StatusOK,
                  NetworkInfo(req.vars.interface, QueryType(req),
                              toStringSlice(Index(cfg, "address")),
                              AsStr(Index(cfg, "description")))))

UpdateNetwork(req, out, ord) ==
    LET b == req.body
    IN Plan(~req.bodyOK \/ b.type = << >> \/ b.address = << >>,
            <<Step("delete", Sprintf(Words(<<"interfaces", "%s", "%s", "address">>),
                                     <<b.type, req.vars.interface>>), "errOnly"),
              Step("set", Sprintf(Words(<<"interfaces", "%s", "%s", "address", "%s">>),
                                  <<b.type, req.vars.interface, b.address>>), "fatal")>>
            \o If(b.description # << >>,
                  <<Step("set", Sprintf(Words(<<"interfaces", "%s", "%s", "description", "%s">>),
                                        <<b.type, req.vars.interface, b.description>>),
                         "ignore")>>),
            Reply(StatusOK,
                  NetworkInfo(req.vars.interface, b.type, Slice(<<b.address>>), b.description)))

DeleteNetwork(req, out, ord) ==
    Plan(FALSE,
         <<Step("delete", Sprintf(Words(<<"interfaces", "%s", "%s">>),
                                  <<QueryType(req), req.vars.interface>>), "fatal")>>,
         Reply(StatusNoContent, NoBody))

----------------------------------------------------------------------------
(* handlers/addressgroups.go *)

AddressGroupInfo(name, addrs, desc) ==
    JObj(Field("name", JStr(name)) @@ Field("addresses", JStrings(addrs))
         @@ OmitEmpty("description", desc))

parseAddressGroupData(name, data) ==
    LET cfg == AsMap(data)
        addrs == toStringSlice(Index(cfg, "address"))
    IN AddressGroupInfo(name, IF addrs.nil THEN Slice(<< >>) ELSE addrs,
                        AsStr(Index(cfg, "description")))

GroupPath == Words(<<"firewall", "group", "address-group", "%s">>)

(* ListAddressGroups without the test of the error text for "empty" *)
ListAddressGroups_NoEmptyCheck(req, out, ord) ==
    LET groupMap == Unwrap(AsMap(out.Data), "address-group")
        ks == Range(groupMap, ord)
    IN Plan(FALSE,
            <<Step("get", Words(<<"firewall", "group", "address-group">>), "fatal")>>,
            Reply(StatusOK,
                  JArr([i \in 1..Len(ks) |-> parseAddressGroupData(S(ks[i]), groupMap[ks[i]])])))

ListAddressGroups(req, out, ord) ==
    LET groupMap == Unwrap(AsMap(out.Data), "address-group")
        ks == Range(groupMap, ord)
    IN Plan(FALSE,
            <<Step("get", Words(<<"firewall", "group", "address-group">>), "listEmpty")>>,
            Reply(StatusOK,
                  JArr([i \in 1..Len(ks) |-> parseAddressGroupData(S(ks[i]), groupMap[ks[i]])])))

(* one fatal set per address of the request, in request order *)
MemberSets(group, addrs) ==
    [i \in 1..Len(addrs) |->
        Step("set", Sprintf(GroupPath \o <<SP, "address", SP, "%s">>, <<group, addrs[i]>>),
             "fatal")]

(* CreateAddressGroup removing the group again after its sets *)
CreateAddressGroup_Undoing(req, out, ord) ==
    LET b == req.body
    IN Plan(~req.bodyOK \/ b.name = << >>,
            MemberSets(b.name, b.addresses.elems)
            \o If(GoLen(b.addresses) = 0,
                  <<Step("set", Sprintf(GroupPath, <<b.name>>), "fatal")>>)
            \o If(b.description # << >>,
                  <<Step("set", Sprintf(GroupPath \o <<SP, "description", SP, "%s">>,
                                        <<b.name, b.description>>), "ignore")>>)
            \o <<Step("delete", Sprintf(GroupPath, <<b.name>>), "ignore")>>,
            Reply(StatusCreated, AddressGroupInfo(b.name, b.addresses, b.description)))

(* CreateAddressGroup setting the description before the members *)
CreateAddressGroup_DescriptionFirst(req, out, ord) ==
    LET b == req.body
    IN Plan(~req.bodyOK \/ b.name = << >>,
            If(b.description # << >>,
               <<Step("set", Sprintf(GroupPath \o <<SP, "description", SP, "%s">>,
                                     <<b.name, b.description>>), "ignore")>>)
            \o MemberSets(b.name, b.addresses.elems)
            \o If(GoLen(b.addresses) = 0,
                  <<Step("set", Sprintf(GroupPath, <<b.name>>), "fatal")>>),
            Reply(StatusCreated, AddressGroupInfo(b.name, b.addresses, b.description)))

CreateAddressGroup(req, out, ord) ==
    LET b == req.body
    IN Plan(~req.bodyOK \/ b.name = << >>,
            MemberSets(b.name, b.addresses.elems)
            \o If(GoLen(b.addresses) = 0,
                  <<Step("set", Sprintf(GroupPath, <<b.name>>), "fatal")>>)
            \o If(b.description # << >>,
                  <<Step("set", Sprintf(GroupPath \o <<SP, "description", SP, "%s">>,
                                        <<b.name, b.description>>), "ignore")>>),
            Reply(StatusCreated, AddressGroupInfo(b.name, b.addresses, b.description)))

GetAddressGroup(req, out, ord) ==
    Plan(FALSE,
         <<Step("get", Sprintf(GroupPath, <<req.vars.group>>), "get")>>,
         Reply(StatusOK, parseAddressGroupData(req.vars.group, out.Data)))

(* UpdateAddressGroup deleting the address list after the sets *)
UpdateAddressGroup_DeleteAfterSets(req, out, ord) ==
    LET b == req.body
    IN Plan(~req.bodyOK,
            MemberSets(req.vars.group, b.addresses.elems)
            \o <<Step("delete", Sprintf(GroupPath \o <<SP, "address">>, <<req.vars.group>>),
                      "ignore")>>
            \o If(b.description # << >>,
                  <<Step("set", Sprintf(GroupPath \o <<SP, "description", SP, "%s">>,
                                        <<req.vars.group, b.description>>), "ignore")>>),
            Reply(StatusOK, AddressGroupInfo(req.vars.group, b.addresses, b.description)))

UpdateAddressGroup(req, out, ord) ==
    LET b == req.body
    IN Plan(~req.bodyOK,
            <<Step("delete", Sprintf(GroupPath \o <<SP, "address">>, <<req.vars.group>>),
                   "ignore")>>
            \o MemberSets(req.vars.group, b.addresses.elems)
            \o If(b.description # << >>,
                  <<Step("set", Sprintf(GroupPath \o <<SP, "description", SP, "%s">>,
                                        <<req.vars.group, b.description>>), "ignore")>>),
            Reply(StatusOK, AddressGroupInfo(req.vars.group, b.addresses, b.description)))

DeleteAddressGroup(req, out, ord) ==
    Plan(FALSE,
         <<Step("delete", Sprintf(GroupPath, <<req.vars.group>>), "fatal")>>,
         Reply(StatusNoContent, NoBody))

----------------------------------------------------------------------------
(* handlers/firewall.go: policies and rules *)

RuleInfo(ruleCfg) ==
    LET src == Index(ruleCfg, "source")
        dst == Index(ruleCfg, "destination")
        srcGroup == IF IsMap(src) /\ IsMap(Index(src.m, "group"))
                    THEN AsStr(Index(Index(src.m, "group").m, "address-group")) ELSE << >>
        dstGroup == IF IsMap(dst) /\ IsMap(Index(dst.m, "group"))
                    THEN AsStr(Index(Index(dst.m, "group").m, "address-group")) ELSE << >>
    IN JObj(Field("action", JStr(AsStr(Index(ruleCfg, "action"))))
            @@ OmitEmpty("source", IF IsMap(src) THEN AsStr(Index(src.m, "address")) ELSE << >>)
            @@ OmitEmpty("source_group", srcGroup)
            @@ OmitEmpty("destination", IF IsMap(dst) THEN AsStr(Index(dst.m, "address")) ELSE << >>)
            @@ OmitEmpty("destination_group", dstGroup)
            @@ OmitEmpty("description", AsStr(Index(ruleCfg, "description")))
            @@ OmitFalse("disabled", Has(ruleCfg, "disable")))

parsePolicyData(name, data) ==
    LET cfg == AsMap(data)
        ruleMap == IF IsMap(Index(cfg, "rule")) THEN Index(cfg, "rule").m ELSE EmptyObj
        rules == [id \in DOMAIN ruleMap |-> RuleInfo(AsMap(ruleMap[id]))]
    IN JObj(Field("name", JStr(name))
            @@ Field("default_action", JStr(AsStr(Index(cfg, "default-action"))))
            @@ OmitEmpty("description", AsStr(Index(cfg, "description")))
            @@ OmitFalse("disabled", Has(cfg, "disable"))
            @@ (IF DOMAIN rules = {} THEN EmptyObj ELSE Field("rules", JObj(rules))))

baseChainPaths ==
    <<[name |-> "forward", path |-> Words(<<"firewall", "ipv4", "forward", "filter">>)],
      [name |-> "input", path |-> Words(<<"firewall", "ipv4", "input", "filter">>)],
      [name |-> "output", path |-> Words(<<"firewall", "ipv4", "output", "filter">>)]>>

hasPolicyContent(cfg) ==
    IsMap(Index(cfg, "rule")) \/ Index(cfg, "default-action").t = "str"

(* append on a possibly nil slice: appending nothing leaves it as it was *)
AppendAll(sl, xs) == IF Len(xs) = 0 THEN sl ELSE Slice(sl.elems \o xs)

(* what the n-th get of ListPolicies adds to result *)
CollectPolicies(n, result, r, ord) ==
    IF n = 1
    THEN IF r.err = NoErr /\ r.out.Success
         THEN LET policyMap == Unwrap(AsMap(r.out.Data), "name")
                  ks == Range(policyMap, ord)
              IN AppendAll(result, [i \in 1..Len(ks) |->
                                       parsePolicyData(S(ks[i]), policyMap[ks[i]])])
         ELSE result
    ELSE IF r.err # NoErr \/ ~r.out.Success THEN result
    ELSE LET data == Unwrap(AsMap(r.out.Data), "filter")
         IN IF hasPolicyContent(data)
            THEN AppendAll(result, <<parsePolicyData(S(baseChainPaths[n - 1].name), TMap(data))>>)
            ELSE result

ListPolicies(req, out, ord) ==
    Plan(FALSE,
         <<Step("get", Words(<<"firewall", "ipv4", "name">>), "named")>>
         \o [i \in 1..Len(baseChainPaths) |-> Step("get", baseChainPaths[i].path, "chain")],
         Reply(StatusOK, JNull))

PolicyPath == Words(<<"firewall", "ipv4", "name", "%s">>)
RulePath == Words(<<"firewall", "ipv4", "name", "%s", "rule", "%d">>)

CreatePolicy(req, out, ord) ==
    LET b == req.body
    IN Plan(~req.bodyOK \/ b.name = << >> \/ b.default_action = << >>,
            <<Step("set", Sprintf(PolicyPath \o <<SP, "default-action", SP, "%s">>,
                                  <<b.name, b.default_action>>), "fatal")>>
            \o If(b.description # << >>,
                  <<Step("set", Sprintf(PolicyPath \o <<SP, "description", SP, "%s">>,
                                        <<b.name, b.description>>), "ignore")>>),
            Reply(StatusCreated,
                  JObj(Field("name", JStr(b.name))
                       @@ Field("default_action", JStr(b.default_action))
                       @@ OmitEmpty("description", b.description))))

GetPolicyPath(policy) ==
    LET hit == {i \in 1..Len(baseChainPaths) : S(baseChainPaths[i].name) = policy}
    IN IF hit # {} THEN baseChainPaths[CHOOSE i \in hit : TRUE].path
       ELSE Sprintf(PolicyPath, <<policy>>)

GetPolicyData(policy, data) ==
    IF ~IsMap(data) THEN data
    ELSE IF IsMap(Index(data.m, "filter")) THEN Index(data.m, "filter")
    ELSE IF IsMap(Index(data.m, "name"))
            /\ Len(policy) = 1
            /\ IsMap(Index(Index(data.m, "name").m, policy[1]))
         THEN Index(Index(data.m, "name").m, policy[1])
    ELSE data

GetPolicy(req, out, ord) ==
    Plan(FALSE,
         <<Step("get", GetPolicyPath(req.vars.policy), "get")>>,
         Reply(StatusOK, parsePolicyData(req.vars.policy,
                                         GetPolicyData(req.vars.policy, out.Data))))

(* UpdatePolicy with the description set checked like the default-action set *)
UpdatePolicy_DescriptionChecked(req, out, ord) ==
    LET b == req.body
    IN Plan(~req.bodyOK,
            If(b.default_action # << >>,
               <<Step("set", Sprintf(PolicyPath \o <<SP, "default-action", SP, "%s">>,
                                     <<req.vars.policy, b.default_action>>), "fatal")>>)
            \o If(b.description # << >>,
                  <<Step("set", Sprintf(PolicyPath \o <<SP, "description", SP, "%s">>,
                                        <<req.vars.policy, b.description>>), "fatal")>>)
            \o <<Step("get", Sprintf(PolicyPath, <<req.vars.policy>>), "errOnly")>>,
            Reply(StatusOK, parsePolicyData(req.vars.policy, out.Data)))

UpdatePolicy(req, out, ord) ==
    LET b == req.body
    IN Plan(~req.bodyOK,
            If(b.default_action # << >>,
               <<Step("set", Sprintf(PolicyPath \o <<SP, "default-action", SP, "%s">>,
                                     <<req.vars.policy, b.default_action>>), "fatal")>>)
            \o If(b.description # << >>,
                  <<Step("set", Sprintf(PolicyPath \o <<SP, "description", SP, "%s">>,
                                        <<req.vars.policy, b.description>>), "ignore")>>)
            \o <<Step("get", Sprintf(PolicyPath, <<req.vars.policy>>), "errOnly")>>,
            Reply(StatusOK, parsePolicyData(req.vars.policy, out.Data)))

DeletePolicy(req, out, ord) ==
    Plan(FALSE,
         <<Step("delete", Sprintf(PolicyPath, <<req.vars.policy>>), "fatal")>>,
         Reply(StatusNoContent, NoBody))

(* AddRule setting the group match also when the address is given *)
AddRule_BothMatches(req, out, ord) ==
    LET b == req.body
        pol == req.vars.policy
    IN Plan(~req.bodyOK \/ b.rule_id = 0 \/ b.action = << >>,
            <<Step("set", Sprintf(RulePath \o <<SP, "action", SP, "%s">>,
                                  <<pol, b.rule_id, b.action>>), "fatal")>>
            \o (IF b.source # << >>
                THEN <<Step("set", Sprintf(RulePath \o <<SP, "source", SP, "address", SP, "%s">>,
                                           <<pol, b.rule_id, b.source>>), "ignore")>>
                ELSE << >>)
            \o (If(b.source_group # << >>,
                        <<Step("set", Sprintf(RulePath \o <<SP>> \o Words(<<"source", "group",
                                                                   "address-group", "%s">>),
                                              <<pol, b.rule_id, b.source_group>>), "ignore")>>))
            \o (IF b.destination # << >>
                THEN <<Step("set", Sprintf(RulePath \o <<SP, "destination", SP, "address", SP, "%s">>,
                                           <<pol, b.rule_id, b.destination>>), "ignore")>>
                ELSE << >>)
            \o (If(b.destination_group # << >>,
                        <<Step("set", Sprintf(RulePath \o <<SP>> \o Words(<<"destination", "group",
                                                                   "address-group", "%s">>),
                                              <<pol, b.rule_id, b.destination_group>>),
                               "ignore")>>))
            \o If(b.description # << >>,
                  <<Step("set", Sprintf(RulePath \o <<SP, "description", SP, "%s">>,
                                        <<pol, b.rule_id, b.description>>), "ignore")>>),
            Reply(StatusCreated,
                  JObj(Field("policy", JStr(pol)) @@ Field("rule_id", JNum(b.rule_id))
                       @@ Field("action", JStr(b.action)) @@ Field("source", JStr(b.source))
                       @@ Field("source_group", JStr(b.source_group))
                       @@ Field("destination", JStr(b.destination))
                       @@ Field("destination_group", JStr(b.destination_group))
                       @@ Field("description", JStr(b.description)))))

AddRule(req, out, ord) ==
    LET b == req.body
        pol == req.vars.policy
    IN Plan(~req.bodyOK \/ b.rule_id = 0 \/ b.action = << >>,
            <<Step("set", Sprintf(RulePath \o <<SP, "action", SP, "%s">>,
                                  <<pol, b.rule_id, b.action>>), "fatal")>>
            \o (IF b.source # << >>
                THEN <<Step("set", Sprintf(RulePath \o <<SP, "source", SP, "address", SP, "%s">>,
                                           <<pol, b.rule_id, b.source>>), "ignore")>>
                ELSE If(b.source_group # << >>,
                        <<Step("set", Sprintf(RulePath \o <<SP>> \o Words(<<"source", "group",
                                                                   "address-group", "%s">>),
                                              <<pol, b.rule_id, b.source_group>>), "ignore")>>))
            \o (IF b.destination # << >>
                THEN <<Step("set", Sprintf(RulePath \o <<SP, "destination", SP, "address", SP, "%s">>,
                                           <<pol, b.rule_id, b.destination>>), "ignore")>>
                ELSE If(b.destination_group # << >>,
                        <<Step("set", Sprintf(RulePath \o <<SP>> \o Words(<<"destination", "group",
                                                                   "address-group", "%s">>),
                                              <<pol, b.rule_id, b.destination_group>>),
                               "ignore")>>))
            \o If(b.description # << >>,
                  <<Step("set", Sprintf(RulePath \o <<SP, "description", SP, "%s">>,
                                        <<pol, b.rule_id, b.description>>), "ignore")>>),
            Reply(StatusCreated,
                  JObj(Field("policy", JStr(pol)) @@ Field("rule_id", JNum(b.rule_id))
                       @@ Field("action", JStr(b.action)) @@ Field("source", JStr(b.source))
                       @@ Field("source_group", JStr(b.source_group))
                       @@ Field("destination", JStr(b.destination))
                       @@ Field("destination_group", JStr(b.destination_group))
                       @@ Field("description", JStr(b.description)))))

DeleteRule(req, out, ord) ==
    Plan(~AtoiOK(req.vars.rule_id),
         <<Step("delete", Sprintf(RulePath, <<req.vars.policy, Atoi(req.vars.rule_id)>>),
                "fatal")>>,
         Reply(StatusNoContent, NoBody))

DisablePolicy(req, out, ord) ==
    Plan(FALSE,
         <<Step("set", Sprintf(PolicyPath \o <<SP, "disable">>, <<req.vars.policy>>), "fatal")>>,
         Reply(StatusOK, JObj(Field("disabled", JBool(TRUE)))))

EnablePolicy(req, out, ord) ==
    Plan(FALSE,
         <<Step("delete", Sprintf(PolicyPath \o <<SP, "disable">>, <<req.vars.policy>>), "fatal")>>,
         Reply(StatusOK, JObj(Field("disabled", JBool(FALSE)))))

DisableRule(req, out, ord) ==
    Plan(~AtoiOK(req.vars.rule_id),
         <<Step("set", Sprintf(RulePath \o <<SP, "disable">>,
                               <<req.vars.policy, Atoi(req.vars.rule_id)>>), "fatal")>>,
         Reply(StatusOK, JObj(Field("disabled", JBool(TRUE)))))

EnableRule(req, out, ord) ==
    Plan(~AtoiOK(req.vars.rule_id),
         <<Step("delete", Sprintf(RulePath \o <<SP, "disable">>,
                                  <<req.vars.policy, Atoi(req.vars.rule_id)>>), "fatal")>>,
         Reply(StatusOK, JObj(Field("disabled", JBool(FALSE)))))

----------------------------------------------------------------------------
(* handlers/nat.go *)

NATRuleInfo(ruleID, natType, f, disabled) ==
    JObj(Field("rule_id", JNum(ruleID)) @@ Field("type", JStr(natType))
         @@ OmitEmpty("description", f.description)
         @@ OmitEmpty("outbound_interface", f.outbound_interface)
         @@ OmitEmpty("inbound_interface", f.inbound_interface)
         @@ OmitEmpty("protocol", f.protocol)
         @@ OmitEmpty("source_address", f.source_address)
         @@ OmitEmpty("source_port", f.source_port)
         @@ OmitEmpty("destination_address", f.destination_address)
         @@ OmitEmpty("destination_port", f.destination_port)
         @@ OmitEmpty("translation_address", f.translation_address)
         @@ OmitEmpty("translation_port", f.translation_port)
         @@ OmitFalse("disabled", disabled))

validNATType(natType) == natType = S("source") \/ natType = S("destination")

natRulePath(natType, ruleID) == Sprintf(Words(<<"nat", "%s", "rule", "%d">>), <<natType, ruleID>>)

(* cfg[k].(map)[sub].(string), the empty string when either step fails *)
SubStr(cfg, k, sub) ==
    IF IsMap(Index(cfg, k)) THEN AsStr(Index(Index(cfg, k).m, sub)) ELSE << >>

(* parseNATRuleData testing the value under disable for nil, not the key *)
parseNATRuleData_DisableNotNil(natType, ruleID, data) ==
    LET cfg == AsMap(data)
    IN NATRuleInfo(ruleID, natType,
                   [description |-> AsStr(Index(cfg, "description")),
                    outbound_interface |-> SubStr(cfg, "outbound-interface", "name"),
                    inbound_interface |-> SubStr(cfg, "inbound-interface", "name"),
                    protocol |-> AsStr(Index(cfg, "protocol")),
                    source_address |-> SubStr(cfg, "source", "address"),
                    source_port |-> SubStr(cfg, "source", "port"),
                    destination_address |-> SubStr(cfg, "destination", "address"),
                    destination_port |-> SubStr(cfg, "destination", "port"),
                    translation_address |-> SubStr(cfg, "translation", "address"),
                    translation_port |-> SubStr(cfg, "translation", "port")],
                   Index(cfg, "disable").t # "null")

parseNATRuleData(natType, ruleID, data) ==
    LET cfg == AsMap(data)
    IN NATRuleInfo(ruleID, natType,
                   [description |-> AsStr(Index(cfg, "description")),
                    outbound_interface |-> SubStr(cfg, "outbound-interface", "name"),
                    inbound_interface |-> SubStr(cfg, "inbound-interface", "name"),
                    protocol |-> AsStr(Index(cfg, "protocol")),
                    source_address |-> SubStr(cfg, "source", "address"),
                    source_port |-> SubStr(cfg, "source", "port"),
                    destination_address |-> SubStr(cfg, "destination", "address"),
                    destination_port |-> SubStr(cfg, "destination", "port"),
                    translation_address |-> SubStr(cfg, "translation", "address"),
                    translation_port |-> SubStr(cfg, "translation", "port")],
                   Has(cfg, "disable"))

NATItems(natType, ruleMap, ord) ==
    LET ks == Range(ruleMap, ord)
    IN Concat([i \in 1..Len(ks) |->
                  IF AtoiOK(S(ks[i]))
                  THEN <<parseNATRuleData(natType, Atoi(S(ks[i])), ruleMap[ks[i]])>>
                  ELSE << >>])

ListNATRules(req, out, ord) ==
    Plan(~validNATType(req.vars.nat_type),
         <<Step("get", Sprintf(Words(<<"nat", "%s", "rule">>), <<req.vars.nat_type>>), "list400")>>,
         Reply(StatusOK,
               JArr(IF out.Success
                    THEN NATItems(req.vars.nat_type, Unwrap(AsMap(out.Data), "rule"), ord)
                    ELSE << >>)))

(* one best-effort set per optional field the body carries, in the code's order *)
NATOptionalSets(base, b) ==
    LET opt(val, words) ==
            If(val # << >>,
               <<Step("set", Sprintf(<<"%s", SP>> \o Words(words) \o <<SP, "%s">>, <<base, val>>),
                      "ignore")>>)
    IN opt(b.translation_port, <<"translation", "port">>)
       \o opt(b.description, <<"description">>)
       \o opt(b.protocol, <<"protocol">>)
       \o opt(b.outbound_interface, <<"outbound-interface", "name">>)
       \o opt(b.inbound_interface, <<"inbound-interface", "name">>)
       \o opt(b.source_address, <<"source", "address">>)
       \o opt(b.source_port, <<"source", "port">>)
       \o opt(b.destination_address, <<"destination", "address">>)
       \o opt(b.destination_port, <<"destination", "port">>)

CreateNATRule(req, out, ord) ==
    LET b == req.body
        base == natRulePath(req.vars.nat_type, b.rule_id)
    IN Plan(~validNATType(req.vars.nat_type) \/ ~req.bodyOK
               \/ b.rule_id = 0 \/ b.translation_address = << >>,
            <<Step("set", Sprintf(Words(<<"%s", "translation", "address", "%s">>),
                                  <<base, b.translation_address>>), "fatal")>>
            \o NATOptionalSets(base, b),
            Reply(StatusCreated, NATRuleInfo(b.rule_id, req.vars.nat_type, b, FALSE)))

GetNATRule(req, out, ord) ==
    Plan(~validNATType(req.vars.nat_type) \/ ~AtoiOK(req.vars.rule_id),
         <<Step("get", natRulePath(req.vars.nat_type, Atoi(req.vars.rule_id)), "get")>>,
         Reply(StatusOK, parseNATRuleData(req.vars.nat_type, Atoi(req.vars.rule_id), out.Data)))

UpdateNATRule(req, out, ord) ==
    LET b == req.body
        base == natRulePath(req.vars.nat_type, Atoi(req.vars.rule_id))
    IN Plan(~validNATType(req.vars.nat_type) \/ ~AtoiOK(req.vars.rule_id) \/ ~req.bodyOK,
            If(b.translation_address # << >>,
               <<Step("set", Sprintf(Words(<<"%s", "translation", "address", "%s">>),
                                     <<base, b.translation_address>>), "fatal")>>)
            \o NATOptionalSets(base, b)
            \o <<Step("get", base, "errOnly")>>,
            Reply(StatusOK, parseNATRuleData(req.vars.nat_type, Atoi(req.vars.rule_id),
                                             out.Data)))

DeleteNATRule(req, out, ord) ==
    Plan(~validNATType(req.vars.nat_type) \/ ~AtoiOK(req.vars.rule_id),
         <<Step("delete", natRulePath(req.vars.nat_type, Atoi(req.vars.rule_id)), "fatal")>>,
         Reply(StatusNoContent, NoBody))

----------------------------------------------------------------------------
(* handlers/routes.go *)

RouteInfo(network, nextHop, distance, desc) ==
    JObj(Field("network", JStr(network)) @@ Field("next_hop", JStr(nextHop))
         @@ OmitEmpty("distance", distance) @@ OmitEmpty("description", desc))

routeNetwork(v) == v.prefix \o <<"/">> \o v.mask

routeBasePath(network) == Sprintf(Words(<<"protocols", "static", "route", "%s">>), <<network>>)

(* the Go string a route key of the device's data stands for *)
KeyAtoms(k) == IF k = "10.0.0.0/8" THEN <<"10.0.0.0", "/", "8">> ELSE <<k>>

parseRouteData(network, data, ord) ==
    LET cfg == AsMap(data)
        nhMap == IF IsMap(Index(cfg, "next-hop")) THEN Index(cfg, "next-hop").m ELSE EmptyObj
        ks == Range(nhMap, ord)
        nextHop == IF Len(ks) = 0 THEN << >> ELSE S(ks[1])
        distance == IF Len(ks) = 0 THEN << >>
                    ELSE AsStr(Index(AsMap(nhMap[ks[1]]), "distance"))
    IN RouteInfo(network, nextHop, distance, AsStr(Index(cfg, "description")))

RouteItems(routeMap, ord) ==
    LET ks == Range(routeMap, ord)
    IN [i \in 1..Len(ks) |-> parseRouteData(KeyAtoms(ks[i]), routeMap[ks[i]], ord)]

(* ListRoutes with every failure of its get taken for an empty collection *)
ListRoutes_FailureAsEmpty(req, out, ord) ==
    Plan(FALSE,
         <<Step("get", Words(<<"protocols", "static", "route">>), "chain")>>,
         Reply(StatusOK,
               JArr(IF out.Success THEN RouteItems(Unwrap(AsMap(out.Data), "route"), ord)
                    ELSE << >>)))

ListRoutes(req, out, ord) ==
    Plan(FALSE,
         <<Step("get", Words(<<"protocols", "static", "route">>), "list400")>>,
         Reply(StatusOK,
               JArr(IF out.Success THEN RouteItems(Unwrap(AsMap(out.Data), "route"), ord)
                    ELSE << >>)))

CreateRoute(req, out, ord) ==
    LET b == req.body
        base == routeBasePath(b.network)
        nhPath == Sprintf(Words(<<"%s", "next-hop", "%s">>), <<base, b.next_hop>>)
    IN Plan(~req.bodyOK \/ b.network = << >> \/ b.next_hop = << >>,
            <<Step("set", nhPath, "fatal")>>
            \o If(b.distance # << >>,
                  <<Step("set", Sprintf(Words(<<"%s", "distance", "%s">>),
                                        <<nhPath, b.distance>>), "ignore")>>)
            \o If(b.description # << >>,
                  <<Step("set", Sprintf(Words(<<"%s", "description", "%s">>),
                                        <<base, b.description>>), "ignore")>>),
            Reply(StatusCreated, RouteInfo(b.network, b.next_hop, b.distance, b.description)))

GetRoute(req, out, ord) ==
    Plan(FALSE,
         <<Step("get", routeBasePath(routeNetwork(req.vars)), "get")>>,
         Reply(StatusOK, parseRouteData(routeNetwork(req.vars), out.Data, ord)))

UpdateRoute(req, out, ord) ==
    LET b == req.body
        network == routeNetwork(req.vars)
        base == routeBasePath(network)
        nhPath == Sprintf(Words(<<"%s", "next-hop", "%s">>), <<base, b.next_hop>>)
    IN Plan(~req.bodyOK,
            If(b.next_hop # << >>,
               <<Step("set", nhPath, "fatal")>>
               \o If(b.distance # << >>,
                     <<Step("set", Sprintf(Words(<<"%s", "distance", "%s">>),
                                           <<nhPath, b.distance>>), "ignore")>>))
            \o If(b.description # << >>,
                  <<Step("set", Sprintf(Words(<<"%s", "description", "%s">>),
                                        <<base, b.description>>), "ignore")>>)
            \o <<Step("get", base, "errOnly")>>,
            Reply(StatusOK, parseRouteData(network, out.Data, ord)))

DeleteRoute(req, out, ord) ==
    Plan(FALSE,
         <<Step("delete", routeBasePath(routeNetwork(req.vars)), "fatal")>>,
         Reply(StatusNoContent, NoBody))

----------------------------------------------------------------------------
(* handlers/dhcp.go *)

DHCPSubnetInfo(subnet, f) ==
    JObj(Field("subnet", JStr(subnet))
         @@ OmitEmpty("default_router", f.default_router)
         @@ OmitEmptySlice("dns_servers", f.dns_servers)
         @@ OmitEmpty("range_start", f.range_start)
         @@ OmitEmpty("range_stop", f.range_stop)
         @@ OmitEmpty("lease", f.lease))

DHCPServerInfo(name, subnets) ==
    JObj(Field("name", JStr(name)) @@ Field("subnets", JArr(subnets)))

dhcpBasePath(name) ==
    Sprintf(Words(<<"service", "dhcp-server", "shared-network-name", "%s">>), <<name>>)

dhcpSubnetPath(name, subnet) ==
    Sprintf(Words(<<"%s", "subnet", "%s">>), <<dhcpBasePath(name), subnet>>)

setDHCPSubnetFields(subnetPath, b) ==
    LET opt(val, words) ==
            If(val # << >>,
               <<Step("set", Sprintf(<<"%s", SP>> \o Words(words) \o <<SP, "%s">>,
                                     <<subnetPath, val>>), "ignore")>>)
    IN opt(b.default_router, <<"default-router">>)
       \o Concat([i \in 1..GoLen(b.dns_servers) |->
                     opt(TrimSpace(b.dns_servers.elems[i]), <<"name-server">>)])
       \o opt(b.range_start, <<"range", "0", "start">>)
       \o opt(b.range_stop, <<"range", "0", "stop">>)
       \o opt(b.lease, <<"lease">>)

parseDHCPSubnet(subnet, sData, ord) ==
    LET sCfg == AsMap(sData)
        ns == Index(sCfg, "name-server")
        dns == IF ns.t = "str" THEN Slice(<<ns.s>>)
               ELSE IF ns.t = "list" THEN AppendAll(NilSlice, StringsOf(ns.l))
               ELSE NilSlice
        rangeMap == IF IsMap(Index(sCfg, "range")) THEN Index(sCfg, "range").m ELSE EmptyObj
        ks == Range(rangeMap, ord)
        rCfg == IF Len(ks) > 0 /\ IsMap(rangeMap[ks[1]]) THEN rangeMap[ks[1]].m ELSE EmptyObj
    IN DHCPSubnetInfo(subnet,
                      [default_router |-> AsStr(Index(sCfg, "default-router")),
                       dns_servers |-> dns,
                       range_start |-> AsStr(Index(rCfg, "start")),
                       range_stop |-> AsStr(Index(rCfg, "stop")),
                       lease |-> AsStr(Index(sCfg, "lease"))])

parseDHCPServerData(name, data, ord) ==
    LET cfg == AsMap(data)
        subnetMap == AsMap(Index(cfg, "subnet"))
        ks == Range(subnetMap, ord)
    IN DHCPServerInfo(name, [i \in 1..Len(ks) |->
                                parseDHCPSubnet(S(ks[i]), subnetMap[ks[i]], ord)])

DHCPItems(netMap, ord) ==
    LET ks == Range(netMap, ord)
    IN [i \in 1..Len(ks) |-> parseDHCPServerData(S(ks[i]), netMap[ks[i]], ord)]

ListDHCPServers(req, out, ord) ==
    Plan(FALSE,
         <<Step("get", Words(<<"service", "dhcp-server", "shared-network-name">>), "list400")>>,
         Reply(StatusOK,
               JArr(IF out.Success
                    THEN DHCPItems(Unwrap(AsMap(out.Data), "shared-network-name"), ord)
                    ELSE << >>)))

CreateDHCPServer(req, out, ord) ==
    LET b == req.body
        subnetPath == dhcpSubnetPath(b.name, b.subnet)
    IN Plan(~req.bodyOK \/ b.name = << >> \/ b.subnet = << >>,
            <<Step("set", subnetPath, "fatal")>> \o setDHCPSubnetFields(subnetPath, b),
            Reply(StatusCreated, DHCPServerInfo(b.name, <<DHCPSubnetInfo(b.subnet, b)>>)))

GetDHCPServer(req, out, ord) ==
    Plan(FALSE,
         <<Step("get", dhcpBasePath(req.vars.name), "get")>>,
         Reply(StatusOK, parseDHCPServerData(req.vars.name, out.Data, ord)))

UpdateDHCPServer(req, out, ord) ==
    LET b == req.body
        subnetPath == dhcpSubnetPath(req.vars.name, b.subnet)
    IN Plan(~req.bodyOK \/ b.subnet = << >>,
            <<Step("set", subnetPath, "fatal")>> \o setDHCPSubnetFields(subnetPath, b)
            \o <<Step("get", dhcpBasePath(req.vars.name), "errOnly")>>,
            Reply(StatusOK, parseDHCPServerData(req.vars.name, out.Data, ord)))

DeleteDHCPServer(req, out, ord) ==
    Plan(FALSE,
         <<Step("delete", dhcpBasePath(req.vars.name), "fatal")>>,
         Reply(StatusNoContent, NoBody))

----------------------------------------------------------------------------
(* handlers/health.go, handlers/devices.go *)

Health(req, out, ord) ==
    Plan(FALSE, << >>, Reply(StatusOK, JObj(Field("status", JStr(S("ok"))))))

----------------------------------------------------------------------------
(* What the device may answer.  A wire answer is a kind and, for a         *)
(* successful get, one of the sample trees of the path that was asked for. *)

Obj(ks, vs) == [k \in {ks[i] : i \in 1..Len(ks)} |->
                   vs[CHOOSE i \in 1..Len(ks) : ks[i] = k]]

Addr1 == S("10.0.0.1")
Addr2 == S("10.0.0.2")

VRFCfgs ==
    <<TMap(Obj(<<"table">>, <<TStr(S("100"))>>)),
      TMap(Obj(<<"table", "description">>, <<TStr(S("100")), TStr(S("core"))>>)),
      TNull>>

VRFTrees ==
    <<TMap(Obj(<<"name">>, <<TMap(Obj(<<"MGMT", "PROD">>, <<VRFCfgs[1], VRFCfgs[2]>>))>>)),
      TMap(Obj(<<"MGMT">>, <<VRFCfgs[1]>>)),
      TNull,
      TMap(Obj(<<"name", "MGMT">>, <<VRFCfgs[1], VRFCfgs[2]>>))>>

IfaceCfgs ==
    <<TMap(Obj(<<"address">>, <<TStr(Addr1)>>)),
      TMap(Obj(<<"address", "description">>,
               <<TList(<<TStr(Addr1), TMap(EmptyObj), TStr(Addr2)>>), TStr(S("uplink"))>>)),
      TMap(Obj(<<"description">>, <<TStr(S("uplink"))>>)),
      TNull>>

InterfaceTrees ==
    <<TMap(Obj(<<"ethernet", "bonding">>,
               <<TMap(Obj(<<"eth0", "eth1">>,
                          <<TMap(Obj(<<"address", "vif">>,
                                     <<TStr(Addr1),
                                       TMap(Obj(<<"10", "x">>, <<IfaceCfgs[2], IfaceCfgs[1]>>))>>)),
                            IfaceCfgs[3]>>)),
                 TMap(Obj(<<"bond0">>,
                          <<TMap(Obj(<<"vif">>, <<TMap(Obj(<<"20">>, <<IfaceCfgs[3]>>))>>))>>))>>)),
      TMap(Obj(<<"ethernet">>, <<TMap(Obj(<<"eth0">>, <<IfaceCfgs[3]>>))>>)),
      TNull>>

GroupCfgs ==
    <<TMap(Obj(<<"address">>, <<TStr(Addr1)>>)),
      TMap(Obj(<<"address", "description">>,
               <<TList(<<TStr(Addr1), TStr(Addr2)>>), TStr(S("servers"))>>)),
      TMap(Obj(<<"description">>, <<TStr(S("servers"))>>)),
      TNull>>

GroupTrees ==
    <<TMap(Obj(<<"address-group">>, <<TMap(Obj(<<"A", "B">>, <<GroupCfgs[2], GroupCfgs[3]>>))>>)),
      TMap(Obj(<<"A">>, <<GroupCfgs[1]>>)),
      TNull,
      TMap(Obj(<<"address-group", "A">>, <<GroupCfgs[2], GroupCfgs[3]>>))>>

RuleCfgs ==
    <<TMap(Obj(<<"action", "source", "destination">>,
               <<TStr(S("accept")),
                 TMap(Obj(<<"address">>, <<TStr(Addr1)>>)),
                 TMap(Obj(<<"group">>, <<TMap(Obj(<<"address-group">>, <<TStr(S("A"))>>))>>))>>)),
      TMap(Obj(<<"action", "disable", "description">>,
               <<TStr(S("drop")), TMap(EmptyObj), TStr(S("block"))>>))>>

PolicyCfgs ==
    <<TMap(Obj(<<"default-action", "rule">>,
               <<TStr(S("drop")),
                 TMap(Obj(<<"10", "20", "100">>, <<RuleCfgs[1], RuleCfgs[2], RuleCfgs[1]>>))>>)),
      TMap(Obj(<<"default-action", "disable", "description">>,
               <<TStr(S("accept")), TNull, TStr(S("edge"))>>)),
      TMap(EmptyObj),
      TNull>>

PolicyTrees ==
    <<TMap(Obj(<<"name">>, <<TMap(Obj(<<"A", "B">>, <<PolicyCfgs[1], PolicyCfgs[2]>>))>>)),
      TMap(Obj(<<"A">>, <<PolicyCfgs[2]>>)),
      TMap(EmptyObj),
      TNull>>

ChainTrees ==
    <<TMap(Obj(<<"filter">>, <<PolicyCfgs[1]>>)),
      PolicyCfgs[2],
      TMap(EmptyObj),
      TNull>>

NATCfgs ==
    <<TMap(Obj(<<"translation", "source", "outbound-interface">>,
               <<TMap(Obj(<<"address">>, <<TStr(S("masquerade"))>>)),
                 TMap(Obj(<<"address", "port">>, <<TStr(Addr1), TStr(S("80"))>>)),
                 TMap(Obj(<<"name">>, <<TStr(S("eth0"))>>))>>)),
      TMap(Obj(<<"description", "disable", "protocol">>,
               <<TStr(S("web")), TMap(EmptyObj), TStr(S("tcp"))>>)),
      TNull>>

NATTrees ==
    <<TMap(Obj(<<"rule">>, <<TMap(Obj(<<"10", "20", "x">>,
                                      <<NATCfgs[1], NATCfgs[2], NATCfgs[1]>>))>>)),
      TMap(Obj(<<"10">>, <<NATCfgs[2]>>)),
      TNull>>

RouteCfgs ==
    <<TMap(Obj(<<"next-hop", "description">>,
               <<TMap(Obj(<<"10.0.0.1", "10.0.0.2">>,
                          <<TMap(Obj(<<"distance">>, <<TStr(S("10"))>>)), TMap(EmptyObj)>>)),
                 TStr(S("default"))>>)),
      TMap(Obj(<<"next-hop">>, <<TMap(Obj(<<"10.0.0.1">>, <<TMap(EmptyObj)>>))>>)),
      TNull>>

RouteTrees ==
    <<TMap(Obj(<<"route">>, <<TMap(Obj(<<"10.0.0.0/8", "10.1.0.0/24">>,
                                       <<RouteCfgs[1], RouteCfgs[2]>>))>>)),
      TMap(Obj(<<"10.0.0.0/8">>, <<RouteCfgs[2]>>)),
      TNull>>

SubnetCfgs ==
    <<TMap(Obj(<<"default-router", "name-server", "range", "lease">>,
               <<TStr(Addr1), TList(<<TStr(Addr1), TStr(Addr2)>>),
                 TMap(Obj(<<"0", "1">>,
                          <<TMap(Obj(<<"start", "stop">>, <<TStr(S("10.1.0.10")),
                                                            TStr(S("10.1.0.99"))>>)),
                            TMap(Obj(<<"start", "stop">>, <<TStr(S("10.1.0.100")),
                                                            TStr(S("10.1.0.199"))>>))>>)),
                 TStr(S("86400"))>>)),
      TMap(Obj(<<"name-server">>, <<TStr(Addr1)>>)),
      TMap(Obj(<<"name-server">>, <<TList(<<TMap(EmptyObj)>>)>>)),
      TMap(EmptyObj)>>

DHCPCfgs ==
    <<TMap(Obj(<<"subnet">>, <<TMap(Obj(<<"10.1.0.0/24">>, <<SubnetCfgs[1]>>))>>)),
      TMap(Obj(<<"subnet">>, <<TMap(Obj(<<"10.0.0.0/8", "10.1.0.0/24">>,
                                        <<SubnetCfgs[2], SubnetCfgs[3]>>))>>)),
      TMap(Obj(<<"subnet">>, <<TMap(Obj(<<"10.1.0.0/24">>, <<SubnetCfgs[4]>>))>>)),
      TNull>>

DHCPTrees ==
    <<TMap(Obj(<<"shared-network-name">>,
               <<TMap(Obj(<<"A", "B">>, <<DHCPCfgs[1], DHCPCfgs[2]>>))>>)),
      TMap(Obj(<<"A">>, <<DHCPCfgs[3]>>)),
      TNull>>

(* the sample trees a successful get of handler h may return at its n-th call *)
DataFor(h, n) ==
    CASE h \in {"ListVRFs"} -> VRFTrees
      [] h \in {"GetVRF", "UpdateVRF"} -> VRFCfgs
      [] h \in {"ListVLANs", "ListNetworks"} -> InterfaceTrees
      [] h \in {"GetVLAN", "GetNetwork"} -> IfaceCfgs
      [] h \in {"ListAddressGroups"} -> GroupTrees
      [] h \in {"GetAddressGroup"} -> GroupCfgs
      [] h \in {"ListPolicies"} -> IF n = 1 THEN PolicyTrees ELSE ChainTrees
      [] h \in {"GetPolicy"} -> PolicyCfgs \o <<ChainTrees[1]>>
      [] h \in {"UpdatePolicy"} -> PolicyCfgs
      [] h \in {"ListNATRules"} -> NATTrees
      [] h \in {"GetNATRule", "UpdateNATRule"} -> NATCfgs
      [] h \in {"ListRoutes"} -> RouteTrees
      [] h \in {"GetRoute", "UpdateRoute"} -> RouteCfgs
      [] h \in {"ListDHCPServers"} -> DHCPTrees
      [] h \in {"GetDHCPServer", "UpdateDHCPServer"} -> DHCPCfgs
      [] OTHER -> <<TNull>>

FailKinds == {"refused", "http400", "http400raw", "http500", "rejected"}
GetFailKinds == FailKinds \cup {"empty", "nopath"}

WireOf(kind, data) ==
    CASE kind = "refused" -> Wire("refused", 0, FALSE, FALSE, TNull, << >>)
      [] kind = "canceled" -> Wire("canceled", 0, FALSE, FALSE, TNull, << >>)
      [] kind = "http400" -> Wire("ok", 400, TRUE, FALSE, TNull, MsgNoPath)
      [] kind = "http400raw" -> Wire("ok", 400, FALSE, FALSE, TNull, << >>)
      [] kind = "http500" -> Wire("ok", 500, TRUE, FALSE, TNull, MsgInternal)
      [] kind = "rejected" -> Wire("ok", 200, TRUE, FALSE, TNull, MsgInternal)
      [] kind = "empty" -> Wire("ok", 200, TRUE, FALSE, TNull, MsgEmpty)
      [] kind = "nopath" -> Wire("ok", 200, TRUE, FALSE, TNull, MsgNoPath)
      [] kind = "ok" -> Wire("ok", 200, TRUE, TRUE, data, << >>)

(* the answers the device may give to the n-th call of handler h *)
Answers(h, op, n) ==
    IF op = "get"
    THEN {<<k, 1>> : k \in GetFailKinds} \cup {<<"ok", i>> : i \in 1..Len(DataFor(h, n))}
         \cup (IF h \in {"GetPolicy", "GetVRF", "GetAddressGroup"}
               THEN {<<"stored", 1>>} ELSE {})
    ELSE {<<k, 1>> : k \in FailKinds} \cup {<<"ok", 1>>}

Class(r) ==
    IF r.err # NoErr THEN "transport"
    ELSE IF ~r.out.Success THEN "rejected"
    ELSE "ok"

----------------------------------------------------------------------------
(* The device's configuration store, as far as the model follows it: the   *)
(* member paths firewall group address-group <g> address <a>, the flag     *)
(* paths firewall ipv4 name <p> [rule <n>] disable and the leaves vrf name *)
(* <v> table <t> and vrf name <v> description <d>.  A set that the device  *)
(* accepts adds its path, in place of the value a single-valued leaf held; *)
(* an accepted delete removes the sub-tree under its path.                 *)

GroupRoot == <<S("firewall"), S("group"), S("address-group")>>
PolicyRoot == <<S("firewall"), S("ipv4"), S("name")>>
VRFRoot == <<S("vrf"), S("name")>>

IsPrefix(p, q) == Len(p) <= Len(q) /\ SubSeq(q, 1, Len(p)) = p

IsMemberPath(path) == IsPrefix(GroupRoot, path) /\ Len(path) = 6 /\ path[5] = S("address")
IsFlagPath(path) == IsPrefix(PolicyRoot, path) /\ path[Len(path)] = S("disable")
IsVRFLeaf(path) ==
    IsPrefix(VRFRoot, path) /\ Len(path) = 5 /\ path[4] \in {S("table"), S("description")}

Apply(st, op, path, r) ==
    IF Class(r) # "ok" THEN st
    ELSE IF op = "set"
         THEN (IF IsMemberPath(path) \/ IsFlagPath(path) THEN st \cup {path}
               ELSE IF IsVRFLeaf(path)
                    THEN {q \in st : ~IsPrefix(SubSeq(path, 1, 4), q)} \cup {path}
               ELSE st)
    ELSE IF op = "delete" THEN {q \in st : ~IsPrefix(path, q)}
    ELSE st

(* the node the store holds at firewall ipv4 name <policy>: the flags it    *)
(* follows, next to a default-action                                        *)
PolicyTree(st, policy) ==
    LET base == PolicyRoot \o <<policy>>
        ruleFlags == {q \in st : Len(q) = 7 /\ IsPrefix(base \o <<S("rule")>>, q)
                                  /\ q[7] = S("disable")}
        ids == {q[6][1] : q \in ruleFlags}
    IN TMap(("default-action" :> TStr(S("drop")))
            @@ (IF (base \o <<S("disable")>>) \in st
                THEN "disable" :> TMap(EmptyObj) ELSE EmptyObj)
            @@ (IF ids = {} THEN EmptyObj
                ELSE "rule" :> TMap([id \in ids |-> TMap("disable" :> TMap(EmptyObj))])))

(* the address members the store holds for a group *)
Members(st, group) ==
    {q[6] : q \in {x \in st : Len(x) = 6 /\ IsPrefix(GroupRoot \o <<group, S("address")>>, x)}}

(* the node the store holds at vrf name <vrf>: its leaves *)
VRFTree(st, vrf) ==
    LET leaves == {q \in st : IsVRFLeaf(q) /\ q[3] = vrf}
    IN TMap([k \in {q[4][1] : q \in leaves} |->
                TStr((CHOOSE q \in leaves : q[4] = S(k))[5])])

(* the node the store holds at firewall group address-group <group>: one    *)
(* member is shown as a string, several as a list                           *)
GroupTree(st, group) ==
    LET ms == SortKeys({a[1] : a \in Members(st, group)}, "fwd")
    IN IF Len(ms) = 0 THEN TMap(EmptyObj)
       ELSE IF Len(ms) = 1 THEN TMap("address" :> TStr(S(ms[1])))
       ELSE TMap("address" :> TList([i \in 1..Len(ms) |-> TStr(S(ms[i]))]))

(* what a get of path shows of the store *)
StoredData(st, path) ==
    IF Len(path) = 4 /\ IsPrefix(PolicyRoot, path) THEN PolicyTree(st, path[4])
    ELSE IF Len(path) = 3 /\ IsPrefix(VRFRoot, path) THEN VRFTree(st, path[3])
    ELSE IF Len(path) = 4 /\ IsPrefix(GroupRoot, path) THEN GroupTree(st, path[4])
    ELSE TMap("default-action" :> TStr(S("drop")))

(* the device's answer to a get out of the store: a path that holds nothing *)
(* is answered as empty                                                     *)
StoredWire(st, path) ==
    IF StoredData(st, path) = TMap(EmptyObj) THEN WireOf("empty", TNull)
    ELSE WireOf("ok", StoredData(st, path))

----------------------------------------------------------------------------
(* Serving a request. *)

Registry == {"r1", "r2"}

(* r.Context(): not done while the inbound request is live; at is the       *)
(* number of calls issued when it was cancelled.  silent: the call in       *)
(* flight has had no answer from the device.                                *)
Live == [done |-> FALSE, at |-> 0, silent |-> FALSE]

(* Client.post with the context of the request ignored *)
NewRequestWithContext_Background(c, answers) == answers

(* Client.post builds the HTTP request with the context it is given: once   *)
(* the context is done the exchange ends with the context's error, and a    *)
(* call made afterwards ends so before anything is sent.                    *)
NewRequestWithContext(c, answers) ==
    IF c.done THEN {<<"canceled", 1>>} ELSE answers

Req(h, dev, v, query, bodyOK, body) ==
    [h |-> h, dev |-> dev, vars |-> v, query |-> query, bodyOK |-> bodyOK, body |-> body]

NoVars == [none |-> TRUE]
NoFields == [none |-> TRUE]

Idle == Req("idle", "r1", NoVars, << >>, TRUE, NoFields)

PlanOf(req, out, ord) ==
    CASE req.h = "Health" -> Health(req, out, ord)
      [] req.h = "ListVRFs" -> ListVRFs(req, out, ord)
      [] req.h = "CreateVRF" -> CreateVRF(req, out, ord)
      [] req.h = "GetVRF" -> GetVRF(req, out, ord)
      [] req.h = "UpdateVRF" -> UpdateVRF(req, out, ord)
      [] req.h = "DeleteVRF" -> DeleteVRF(req, out, ord)
      [] req.h = "ListVLANs" -> ListVLANs(req, out, ord)
      [] req.h = "CreateVLAN" -> CreateVLAN(req, out, ord)
      [] req.h = "GetVLAN" -> GetVLAN(req, out, ord)
      [] req.h = "UpdateVLAN" -> UpdateVLAN(req, out, ord)
      [] req.h = "DeleteVLAN" -> DeleteVLAN(req, out, ord)
      [] req.h = "ListNetworks" -> ListNetworks(req, out, ord)
      [] req.h = "CreateNetwork" -> CreateNetwork(req, out, ord)
      [] req.h = "GetNetwork" -> GetNetwork(req, out, ord)
      [] req.h = "UpdateNetwork" -> UpdateNetwork(req, out, ord)
      [] req.h = "DeleteNetwork" -> DeleteNetwork(req, out, ord)
      [] req.h = "ListAddressGroups" -> ListAddressGroups(req, out, ord)
      [] req.h = "CreateAddressGroup" -> CreateAddressGroup(req, out, ord)
      [] req.h = "GetAddressGroup" -> GetAddressGroup(req, out, ord)
      [] req.h = "UpdateAddressGroup" -> UpdateAddressGroup(req, out, ord)
      [] req.h = "DeleteAddressGroup" -> DeleteAddressGroup(req, out, ord)
      [] req.h = "ListPolicies" -> ListPolicies(req, out, ord)
      [] req.h = "CreatePolicy" -> CreatePolicy(req, out, ord)
      [] req.h = "GetPolicy" -> GetPolicy(req, out, ord)
      [] req.h = "UpdatePolicy" -> UpdatePolicy(req, out, ord)
      [] req.h = "DeletePolicy" -> DeletePolicy(req, out, ord)
      [] req.h = "AddRule" -> AddRule(req, out, ord)
      [] req.h = "DeleteRule" -> DeleteRule(req, out, ord)
      [] req.h = "DisablePolicy" -> DisablePolicy(req, out, ord)
      [] req.h = "EnablePolicy" -> EnablePolicy(req, out, ord)
      [] req.h = "DisableRule" -> DisableRule(req, out, ord)
      [] req.h = "EnableRule" -> EnableRule(req, out, ord)
      [] req.h = "ListNATRules" -> ListNATRules(req, out, ord)
      [] req.h = "CreateNATRule" -> CreateNATRule(req, out, ord)
      [] req.h = "GetNATRule" -> GetNATRule(req, out, ord)
      [] req.h = "UpdateNATRule" -> UpdateNATRule(req, out, ord)
      [] req.h = "DeleteNATRule" -> DeleteNATRule(req, out, ord)
      [] req.h = "ListRoutes" -> ListRoutes(req, out, ord)
      [] req.h = "CreateRoute" -> CreateRoute(req, out, ord)
      [] req.h = "GetRoute" -> GetRoute(req, out, ord)
      [] req.h = "UpdateRoute" -> UpdateRoute(req, out, ord)
      [] req.h = "DeleteRoute" -> DeleteRoute(req, out, ord)
      [] req.h = "ListDHCPServers" -> ListDHCPServers(req, out, ord)
      [] req.h = "CreateDHCPServer" -> CreateDHCPServer(req, out, ord)
      [] req.h = "GetDHCPServer" -> GetDHCPServer(req, out, ord)
      [] req.h = "UpdateDHCPServer" -> UpdateDHCPServer(req, out, ord)
      [] req.h = "DeleteDHCPServer" -> DeleteDHCPServer(req, out, ord)

(* encoding/json of the []PolicyInfo that ListPolicies built *)
JSlice(sl) == IF sl.nil THEN JNull ELSE JArr(sl.elems)

(* the reply once every call of the plan is through *)
FinalReply(req, plan, result) ==
    IF req.h = "ListPolicies" THEN Reply(StatusOK, JSlice(result)) ELSE plan.reply

(* the handlers whose calls reach the part of the store the model follows *)
GroupHandlers == {"ListAddressGroups", "CreateAddressGroup", "GetAddressGroup",
                  "UpdateAddressGroup", "DeleteAddressGroup"}

VRFHandlers == {"CreateVRF", "GetVRF", "UpdateVRF", "DeleteVRF"}

FlagHandlers == {"DisablePolicy", "EnablePolicy", "DisableRule", "EnableRule",
                 "GetPolicy", "DeletePolicy", "DeleteRule"}

(* the stored paths a request of handler h may find: those its own family   *)
(* of handlers writes                                                       *)
Reaches(h, path) ==
    \/ h \in GroupHandlers /\ IsMemberPath(path)
    \/ h \in FlagHandlers /\ IsFlagPath(path)
    \/ h \in VRFHandlers /\ IsVRFLeaf(path)

(* the handler validating the request before it looks the device up *)
Start_ValidationFirst(req) ==
    LET plan == PlanOf(req, NoEnvelope, "fwd")
    IN /\ cur.h = "idle"
       /\ \A q \in store : Reaches(req.h, q)
       /\ cur' = req
       /\ pc' = 0
       /\ calls' = << >>
       /\ last' = NoWire
       /\ acc' = NilSlice
       /\ resp' = IF plan.bad THEN writeError(StatusBadRequest)
                  ELSE IF req.h # "Health" /\ req.dev \notin Registry
                       THEN writeError(StatusNotFound)
                  ELSE IF Len(plan.steps) = 0 THEN FinalReply(req, plan, NilSlice)
                  ELSE NoResp
       /\ ctx' = Live
       /\ UNCHANGED store
       /\ UNCHANGED fnvars

(* getClient, then the handler up to its first remote call.  A request is   *)
(* sent while the store holds only paths of its own family of handlers:    *)
(* no other handler changes them or is answered from them.                 *)
Start(req) ==
    LET plan == PlanOf(req, NoEnvelope, "fwd")
    IN /\ cur.h = "idle"
       /\ \A q \in store : Reaches(req.h, q)
       /\ cur' = req
       /\ pc' = 0
       /\ calls' = << >>
       /\ last' = NoWire
       /\ acc' = NilSlice
       /\ resp' = IF req.h # "Health" /\ req.dev \notin Registry THEN writeError(StatusNotFound)
                  ELSE IF plan.bad THEN writeError(StatusBadRequest)
                  ELSE IF Len(plan.steps) = 0 THEN FinalReply(req, plan, NilSlice)
                  ELSE NoResp
       /\ ctx' = Live
       /\ UNCHANGED store
       /\ UNCHANGED fnvars

(* the handler's next remote call, the device's answer, and what the       *)
(* handler does with it                                                    *)
Call ==
    /\ cur.h # "idle"
    /\ resp.status = 0
    /\ ~ctx.silent \/ ctx.done
    /\ ctx' = [ctx EXCEPT !.silent = FALSE]
    /\ UNCHANGED fnvars
    /\ LET steps == PlanOf(cur, NoEnvelope, "fwd").steps
           step == steps[pc + 1]
           path == pathToArr(step.path)
       IN \E a \in NewRequestWithContext(ctx, Answers(cur.h, step.op, pc + 1)) :
          \E ord \in (IF step.op = "get" /\ a[1] = "ok" THEN Orders ELSE {"fwd"}) :
            LET w == IF a[1] = "stored" THEN StoredWire(store, path)
                     ELSE WireOf(a[1], DataFor(cur.h, pc + 1)[a[2]])
                r == ConfCall(w)
                verdict == Handle(step.mode, r)
                result == IF cur.h = "ListPolicies"
                          THEN CollectPolicies(pc + 1, acc, r, ord) ELSE acc
            IN /\ calls' = Append(calls, [op |-> step.op, path |-> path, res |-> Class(r)])
               /\ last' = w
               /\ pc' = pc + 1
               /\ acc' = result
               /\ store' = Apply(store, step.op, path, r)
               /\ resp' = IF verdict.status # Continue.status THEN verdict
                          ELSE IF pc + 1 = Len(steps)
                               THEN FinalReply(cur, PlanOf(cur, r.out, ord), result)
                          ELSE NoResp
               /\ UNCHANGED cur

----------------------------------------------------------------------------
(* The requests the model sends: per handler, path variables, query and    *)
(* decoded body drawn from small sets.  bodyOK = FALSE is a body that does *)
(* not decode; the request struct then keeps its zero values.              *)

Devs == {"r1", "ghost"}

Opt(v) == {<< >>, v}

(* every request of a family: each device, each vars, each query, each     *)
(* body and one undecodable body                                           *)
Family(h, vs, qs, bodies, zero) ==
    {Req(h, d, v, q, TRUE, b) : d \in Devs, v \in vs, q \in qs, b \in bodies}
    \cup {Req(h, d, v, q, FALSE, zero) : d \in Devs, v \in vs, q \in qs}

(* requests without a body *)
Bare(h, vs, qs) == {Req(h, d, v, q, TRUE, NoFields) : d \in Devs, v \in vs, q \in qs}

VRFVars == {[vrf |-> S("MGMT")], [vrf |-> <<SP>>]}
VRFBodies == [name : {<< >>, S("MGMT"), Words(<<"my", "vrf">>)}, table : Opt(S("100")),
              description : {<< >>, S("core"), Words(<<"core", "vrf">>), <<SP>>}]
VRFZero == [name |-> << >>, table |-> << >>, description |-> << >>]
VRFUpdates == {b \in VRFBodies : b.name = << >>}

VLANVars == [interface : {S("eth0")}, vlan_id : {S("10"), S("x")}]
IfaceQueries == Opt(S("bonding"))
VLANBodies == [interface : Opt(S("eth0")), type : Opt(S("ethernet")), vlan_id : {0, 10},
               address : Opt(S("192.0.2.1/24")), description : Opt(S("uplink"))]
VLANZero == [interface |-> << >>, type |-> << >>, vlan_id |-> 0,
             address |-> << >>, description |-> << >>]
VLANUpdates == {b \in VLANBodies : b.interface = << >> /\ b.vlan_id = 0}

NetworkVars == {[interface |-> S("eth0")]}
NetworkBodies == [interface : Opt(S("eth0")), type : Opt(S("ethernet")),
                  address : Opt(S("192.0.2.1/24")), description : Opt(S("uplink"))]
NetworkZero == [interface |-> << >>, type |-> << >>, address |-> << >>, description |-> << >>]
NetworkUpdates == {b \in NetworkBodies : b.interface = << >>}

RECURSIVE SeqsUpTo(_, _)
SeqsUpTo(n, vals) ==
    IF n = 0 THEN {<< >>}
    ELSE LET shorter == SeqsUpTo(n - 1, vals)
         IN shorter \cup {Append(xs, v) : xs \in {y \in shorter : Len(y) = n - 1}, v \in vals}

AddrLists == {NilSlice} \cup {Slice(xs) : xs \in SeqsUpTo(MaxAddrs, {Addr1, Addr2})}

GroupVars == {[group |-> S("G")]}
GroupBodies == [name : Opt(S("G")), addresses : AddrLists, description : Opt(S("servers"))]
GroupZero == [name |-> << >>, addresses |-> NilSlice, description |-> << >>]
GroupUpdates == {b \in GroupBodies : b.name = << >>}

PolicyVars == [policy : {S("A"), S("forward")}]
PolicyBodies == [name : Opt(S("A")), default_action : Opt(S("drop")),
                 description : Opt(S("edge"))]
PolicyZero == [name |-> << >>, default_action |-> << >>, description |-> << >>]
PolicyUpdates == {b \in PolicyBodies : b.name = << >>}

RuleVars == [policy : {S("A")}, rule_id : {S("10"), S("x")}]
RuleBodies == [rule_id : {0, 10}, action : Opt(S("accept")),
               source : Opt(Addr1), source_group : Opt(S("G")),
               destination : Opt(Addr2), destination_group : Opt(S("G")),
               description : Opt(S("web"))]
RuleZero == [rule_id |-> 0, action |-> << >>, source |-> << >>, source_group |-> << >>,
             destination |-> << >>, destination_group |-> << >>, description |-> << >>]

(* the optional NAT fields in the order the handlers set them *)
NATTemplate == <<"translation_port", "description", "protocol", "outbound_interface",
                 "inbound_interface", "source_address", "source_port",
                 "destination_address", "destination_port">>

NATBody(id, ta, fs) ==
    LET val(k, v) == IF k \in fs THEN v ELSE << >>
    IN [rule_id |-> id, translation_address |-> ta,
        translation_port |-> val("translation_port", S("8080")),
        description |-> val("description", S("web")),
        protocol |-> val("protocol", S("tcp")),
        outbound_interface |-> val("outbound_interface", S("eth0")),
        inbound_interface |-> val("inbound_interface", S("eth1")),
        source_address |-> val("source_address", Addr1),
        source_port |-> val("source_port", S("80")),
        destination_address |-> val("destination_address", Addr2),
        destination_port |-> val("destination_port", S("443"))]

(* the sampled bodies set up to MaxOptional fields that follow one another *)
(* in the template                                                         *)
NATFieldSets ==
    {{NATTemplate[i] : i \in {j \in lo..(lo + n - 1) : j <= Len(NATTemplate)}} :
        lo \in 1..Len(NATTemplate), n \in 0..MaxOptional}

NATBodies == {NATBody(id, ta, fs) : id \in {0, 10}, ta \in Opt(S("masquerade")),
                                    fs \in NATFieldSets}
NATZero == NATBody(0, << >>, {})
NATUpdates == {b \in NATBodies : b.rule_id = 0}
NATTypeVars == [nat_type : {S("source"), S("destination"), S("bogus")}]
NATWriteVars == [nat_type : {S("source"), S("bogus")}]
NATRuleVars == [nat_type : {S("source"), S("bogus")}, rule_id : {S("10"), S("x")}]

RouteVars == {[prefix |-> S("10.0.0.0"), mask |-> S("8")]}
RouteBodies == [network : Opt(<<"10.0.0.0", "/", "8">>), next_hop : Opt(Addr1),
                distance : Opt(S("10")), description : Opt(S("default"))]
RouteZero == [network |-> << >>, next_hop |-> << >>, distance |-> << >>, description |-> << >>]
RouteUpdates == {b \in RouteBodies : b.network = << >>}

DNSLists == {NilSlice, Slice(<< >>), Slice(<<Addr1>>), Slice(<<<<SP>>, Addr2>>)}

(* the optional DHCP fields a body sets *)
DHCPOptionals(b) ==
    Cardinality({k \in {"default_router", "range_start", "range_stop", "lease"} :
                    b[k] # << >>})
    + GoLen(b.dns_servers)

DHCPBodies ==
    {b \in [name : Opt(S("A")), subnet : Opt(S("10.1.0.0/24")),
            default_router : Opt(Addr1), dns_servers : DNSLists,
            range_start : Opt(S("10.1.0.10")), range_stop : Opt(S("10.1.0.99")),
            lease : Opt(S("86400"))] : DHCPOptionals(b) <= MaxOptional}
DHCPZero == [name |-> << >>, subnet |-> << >>, default_router |-> << >>,
             dns_servers |-> NilSlice, range_start |-> << >>, range_stop |-> << >>,
             lease |-> << >>]
DHCPUpdates == {b \in DHCPBodies : b.name = << >>}
DHCPVars == {[name |-> S("A")]}

----------------------------------------------------------------------------
(* One action per handler: the request arrives and is served up to its     *)
(* first remote call.                                                      *)

BeginHealth ==
    \E req \in Bare("Health", {NoVars}, {<< >>}) : Start(req)

BeginListVRFs ==
    \E req \in Bare("ListVRFs", {NoVars}, {<< >>}) : Start(req)

BeginCreateVRF ==
    \E req \in Family("CreateVRF", {NoVars}, {<< >>}, VRFBodies, VRFZero) : Start(req)

BeginGetVRF ==
    \E req \in Bare("GetVRF", VRFVars, {<< >>}) : Start(req)

BeginUpdateVRF ==
    \E req \in Family("UpdateVRF", VRFVars, {<< >>}, VRFUpdates, VRFZero) : Start(req)

BeginDeleteVRF ==
    \E req \in Bare("DeleteVRF", VRFVars, {<< >>}) : Start(req)

BeginListVLANs ==
    \E req \in Bare("ListVLANs", {NoVars}, {<< >>}) : Start(req)

BeginCreateVLAN ==
    \E req \in Family("CreateVLAN", {NoVars}, {<< >>}, VLANBodies, VLANZero) : Start(req)

BeginGetVLAN ==
    \E req \in Bare("GetVLAN", VLANVars, IfaceQueries) : Start(req)

BeginUpdateVLAN ==
    \E req \in Family("UpdateVLAN", VLANVars, {<< >>}, VLANUpdates, VLANZero) : Start(req)

BeginDeleteVLAN ==
    \E req \in Bare("DeleteVLAN", VLANVars, IfaceQueries) : Start(req)

BeginListNetworks ==
    \E req \in Bare("ListNetworks", {NoVars}, {<< >>}) : Start(req)

BeginCreateNetwork ==
    \E req \in Family("CreateNetwork", {NoVars}, {<< >>}, NetworkBodies, NetworkZero) : Start(req)

BeginGetNetwork ==
    \E req \in Bare("GetNetwork", NetworkVars, IfaceQueries) : Start(req)

BeginUpdateNetwork ==
    \E req \in Family("UpdateNetwork", NetworkVars, {<< >>}, NetworkUpdates, NetworkZero) : Start(req)

BeginDeleteNetwork ==
    \E req \in Bare("DeleteNetwork", NetworkVars, IfaceQueries) : Start(req)

BeginListAddressGroups ==
    \E req \in Bare("ListAddressGroups", {NoVars}, {<< >>}) : Start(req)

BeginCreateAddressGroup ==
    \E req \in Family("CreateAddressGroup", {NoVars}, {<< >>}, GroupBodies, GroupZero) : Start(req)

BeginGetAddressGroup ==
    \E req \in Bare("GetAddressGroup", GroupVars, {<< >>}) : Start(req)

BeginUpdateAddressGroup ==
    \E req \in Family("UpdateAddressGroup", GroupVars, {<< >>}, GroupUpdates, GroupZero) : Start(req)

BeginDeleteAddressGroup ==
    \E req \in Bare("DeleteAddressGroup", GroupVars, {<< >>}) : Start(req)

BeginListPolicies ==
    \E req \in Bare("ListPolicies", {NoVars}, {<< >>}) : Start(req)

BeginCreatePolicy ==
    \E req \in Family("CreatePolicy", {NoVars}, {<< >>}, PolicyBodies, PolicyZero) : Start(req)

BeginGetPolicy ==
    \E req \in Bare("GetPolicy", PolicyVars, {<< >>}) : Start(req)

BeginUpdatePolicy ==
    \E req \in Family("UpdatePolicy", PolicyVars, {<< >>}, PolicyUpdates, PolicyZero) : Start(req)

BeginDeletePolicy ==
    \E req \in Bare("DeletePolicy", PolicyVars, {<< >>}) : Start(req)

BeginAddRule ==
    \E req \in Family("AddRule", {[policy |-> S("A")]}, {<< >>}, RuleBodies, RuleZero) : Start(req)

BeginDeleteRule ==
    \E req \in Bare("DeleteRule", RuleVars, {<< >>}) : Start(req)

BeginDisablePolicy ==
    \E req \in Bare("DisablePolicy", PolicyVars, {<< >>}) : Start(req)

BeginEnablePolicy ==
    \E req \in Bare("EnablePolicy", PolicyVars, {<< >>}) : Start(req)

BeginDisableRule ==
    \E req \in Bare("DisableRule", RuleVars, {<< >>}) : Start(req)

BeginEnableRule ==
    \E req \in Bare("EnableRule", RuleVars, {<< >>}) : Start(req)

BeginListNATRules ==
    \E req \in Bare("ListNATRules", NATTypeVars, {<< >>}) : Start(req)

BeginCreateNATRule ==
    \E req \in Family("CreateNATRule", NATWriteVars, {<< >>}, NATBodies, NATZero) : Start(req)

BeginGetNATRule ==
    \E req \in Bare("GetNATRule", NATRuleVars, {<< >>}) : Start(req)

BeginUpdateNATRule ==
    \E req \in Family("UpdateNATRule", NATRuleVars, {<< >>}, NATUpdates, NATZero) : Start(req)

BeginDeleteNATRule ==
    \E req \in Bare("DeleteNATRule", NATRuleVars, {<< >>}) : Start(req)

BeginListRoutes ==
    \E req \in Bare("ListRoutes", {NoVars}, {<< >>}) : Start(req)

BeginCreateRoute ==
    \E req \in Family("CreateRoute", {NoVars}, {<< >>}, RouteBodies, RouteZero) : Start(req)

BeginGetRoute ==
    \E req \in Bare("GetRoute", RouteVars, {<< >>}) : Start(req)

BeginUpdateRoute ==
    \E req \in Family("UpdateRoute", RouteVars, {<< >>}, RouteUpdates, RouteZero) : Start(req)

BeginDeleteRoute ==
    \E req \in Bare("DeleteRoute", RouteVars, {<< >>}) : Start(req)

BeginListDHCPServers ==
    \E req \in Bare("ListDHCPServers", {NoVars}, {<< >>}) : Start(req)

BeginCreateDHCPServer ==
    \E req \in Family("CreateDHCPServer", {NoVars}, {<< >>}, DHCPBodies, DHCPZero) : Start(req)

BeginGetDHCPServer ==
    \E req \in Bare("GetDHCPServer", DHCPVars, {<< >>}) : Start(req)

BeginUpdateDHCPServer ==
    \E req \in Family("UpdateDHCPServer", DHCPVars, {<< >>}, DHCPUpdates, DHCPZero) : Start(req)

BeginDeleteDHCPServer ==
    \E req \in Bare("DeleteDHCPServer", DHCPVars, {<< >>}) : Start(req)

(* the handler returns after writing its response; the server waits for   *)
(* the next request, the device keeps its configuration                    *)
Return ==
    /\ cur.h # "idle"
    /\ resp.status # 0
    /\ cur' = Idle
    /\ pc' = 0
    /\ calls' = << >>
    /\ last' = NoWire
    /\ acc' = NilSlice
    /\ resp' = NoResp
    /\ ctx' = Live
    /\ UNCHANGED store
    /\ UNCHANGED fnvars

----------------------------------------------------------------------------

Init ==
    /\ cur = Idle
    /\ pc = 0
    /\ calls = << >>
    /\ last = NoWire
    /\ acc = NilSlice
    /\ resp = NoResp
    /\ store = {}
    /\ ctx = Live
    /\ fn = "none"
    /\ arg = TNull
    /\ ret = NilSlice

Next ==
    \/ BeginHealth
    \/ BeginListVRFs
    \/ BeginCreateVRF
    \/ BeginGetVRF
    \/ BeginUpdateVRF
    \/ BeginDeleteVRF
    \/ BeginListVLANs
    \/ BeginCreateVLAN
    \/ BeginGetVLAN
    \/ BeginUpdateVLAN
    \/ BeginDeleteVLAN
    \/ BeginListNetworks
    \/ BeginCreateNetwork
    \/ BeginGetNetwork
    \/ BeginUpdateNetwork
    \/ BeginDeleteNetwork
    \/ BeginListAddressGroups
    \/ BeginCreateAddressGroup
    \/ BeginGetAddressGroup
    \/ BeginUpdateAddressGroup
    \/ BeginDeleteAddressGroup
    \/ BeginListPolicies
    \/ BeginCreatePolicy
    \/ BeginGetPolicy
    \/ BeginUpdatePolicy
    \/ BeginDeletePolicy
    \/ BeginAddRule
    \/ BeginDeleteRule
    \/ BeginDisablePolicy
    \/ BeginEnablePolicy
    \/ BeginDisableRule
    \/ BeginEnableRule
    \/ BeginListNATRules
    \/ BeginCreateNATRule
    \/ BeginGetNATRule
    \/ BeginUpdateNATRule
    \/ BeginDeleteNATRule
    \/ BeginListRoutes
    \/ BeginCreateRoute
    \/ BeginGetRoute
    \/ BeginUpdateRoute
    \/ BeginDeleteRoute
    \/ BeginListDHCPServers
    \/ BeginCreateDHCPServer
    \/ BeginGetDHCPServer
    \/ BeginUpdateDHCPServer
    \/ BeginDeleteDHCPServer
    \/ Call
    \/ Return

Spec == Init /\ [][Next]_vars

----------------------------------------------------------------------------
(* The normalizers applied on their own: the input is drawn from a bounded  *)
(* set of tree nodes and one action applies the function to it.             *)

(* what a list node may hold *)
Elements == {TStr(S("a")), TStr(S("b")), TNull, TNum(7), TMap(EmptyObj),
             TList(<<TStr(S("c"))>>)}

RECURSIVE ListsUpTo(_)
ListsUpTo(n) ==
    IF n = 0 THEN {<< >>}
    ELSE LET shorter == ListsUpTo(n - 1)
         IN shorter \cup {Append(xs, e) : xs \in {y \in shorter : Len(y) = n - 1},
                                          e \in Elements}

(* the tree nodes toStringSlice is given: a string, a list, and the other   *)
(* shapes (missing, number, map)                                            *)
Nodes ==
    {TStr(<< >>), TStr(S("a")), TStr(Words(<<"a", "b">>)), TNull, TNum(7),
     TMap(EmptyObj), TMap("address" :> TStr(S("a")))}
    \cup {TList(xs) : xs \in ListsUpTo(MaxList)}

(* the values the device may store under the key disable *)
DisableValues == {TMap(EmptyObj), TNull, TStr(<< >>), TStr(S("false"))}

(* a configuration node without and with the key disable *)
WithFlag(m) == {m} \cup {m @@ ("disable" :> v) : v \in DisableValues}

RuleNodes == WithFlag("action" :> TStr(S("accept")))

(* nodes of a policy with the rules 10 and 20, and nodes of a single rule *)
FlagNodes ==
    {TMap(p) : p \in UNION {WithFlag(("default-action" :> TStr(S("drop")))
                                     @@ ("rule" :> TMap(("10" :> TMap(r10))
                                                        @@ ("20" :> TMap(r20))))) :
                                r10 \in RuleNodes,
                                r20 \in {"action" :> TStr(S("drop")),
                                         ("action" :> TStr(S("drop")))
                                         @@ ("disable" :> TMap(EmptyObj))}}}
    \cup {TMap(r) : r \in RuleNodes}

InitFn ==
    /\ cur = Idle
    /\ pc = 0
    /\ calls = << >>
    /\ last = NoWire
    /\ acc = NilSlice
    /\ resp = NoResp
    /\ store = {}
    /\ ctx = Live
    /\ fn = "none"
    /\ arg \in Nodes \cup FlagNodes
    /\ ret = NilSlice

Normalize ==
    /\ fn = "none"
    /\ fn' = "toStringSlice"
    /\ ret' = toStringSlice(arg)
    /\ UNCHANGED <<arg, servevars>>

ParsePolicy ==
    /\ fn = "none"
    /\ fn' = "parsePolicyData"
    /\ ret' = parsePolicyData(S("A"), arg)
    /\ UNCHANGED <<arg, servevars>>

ParseNATRule ==
    /\ fn = "none"
    /\ fn' = "parseNATRuleData"
    /\ ret' = parseNATRuleData(S("source"), 10, arg)
    /\ UNCHANGED <<arg, servevars>>

NextFn == Normalize \/ ParsePolicy \/ ParseNATRule

SpecFn == InitFn /\ [][NextFn]_vars

----------------------------------------------------------------------------
(* The client on its own: Conf.Get, Conf.Set and Conf.Delete applied to the *)
(* HTTP answers a device can give, each status with each body.              *)

ClientStatuses == {200, 201, 204, 400, 404, 500}

ClientWires ==
    {Wire(net, status, json, success, data, error) :
        net \in {"ok", "refused"}, status \in ClientStatuses, json \in BOOLEAN,
        success \in BOOLEAN, data \in {TNull, TMap("table" :> TStr(S("100")))},
        error \in {<< >>, MsgInternal}}

InitClient ==
    /\ cur = Idle
    /\ pc = 0
    /\ calls = << >>
    /\ last \in ClientWires
    /\ acc = NilSlice
    /\ resp = NoResp
    /\ store = {}
    /\ ctx = Live
    /\ fn = "none"
    /\ arg = TNull
    /\ ret = NilSlice

ClientCall(op) ==
    /\ fn = "none"
    /\ fn' = op
    /\ ret' = ConfCall(last)
    /\ UNCHANGED <<arg, servevars>>

ConfGet == ClientCall("Get")
ConfSet == ClientCall("Set")
ConfDelete == ClientCall("Delete")

NextClient == ConfGet \/ ConfSet \/ ConfDelete

SpecClient == InitClient /\ [][NextClient]_vars

----------------------------------------------------------------------------
(* Serving a request whose context is cancelled, or whose device does not   *)
(* answer.  The handlers share Start, Call and Return with Spec.            *)

(* the inbound request is cancelled while its handler runs *)
Cancel ==
    /\ cur.h # "idle"
    /\ resp.status = 0
    /\ ~ctx.done
    /\ ctx' = [ctx EXCEPT !.done = TRUE, !.at = Len(calls)]
    /\ UNCHANGED <<cur, pc, calls, last, acc, resp, store, fnvars>>

(* the device does not answer the call in flight: http.Client.Do of a       *)
(* client without Timeout returns only when the context is done             *)
Hang ==
    /\ cur.h # "idle"
    /\ resp.status = 0
    /\ ~ctx.done
    /\ ~ctx.silent
    /\ ctx' = [ctx EXCEPT !.silent = TRUE]
    /\ UNCHANGED <<cur, pc, calls, last, acc, resp, store, fnvars>>

NextCtx ==
    \/ BeginCreateVRF
    \/ BeginGetVRF
    \/ BeginUpdateVRF
    \/ BeginDeleteVRF
    \/ BeginCreateAddressGroup
    \/ BeginUpdateAddressGroup
    \/ BeginCreateNATRule
    \/ Call
    \/ Return
    \/ Cancel
    \/ Hang

SpecCtx == Init /\ [][NextCtx]_vars

(* a handler that can take its next step takes it, and a written response   *)
(* is sent                                                                  *)
SpecCtxLive == SpecCtx /\ WF_vars(Call) /\ WF_vars(Return)

(* The two handlers of vrfs.go and addressgroups.go against a device that  *)
(* answers every call: a handler that is not blocked goes on to its next   *)
(* statement, and a handler that has written its response returns.         *)
NextReturns ==
    BeginCreateVRF \/ BeginUpdateAddressGroup \/ Call \/ Return

SpecReturns == Init /\ [][NextReturns]_vars /\ WF_vars(Call) /\ WF_vars(Return)

----------------------------------------------------------------------------
(* main: the router.  A pattern is its sequence of segments, a segment in  *)
(* braces being a variable that matches any one segment of the path.       *)

Route(method, pattern, handler) ==
    [method |-> method, pattern |-> pattern, handler |-> handler]

Dev == <<"devices", "{device_id}">>
Networks == Dev \o <<"networks">>
VRFs == Dev \o <<"vrfs">>
VLANs == Dev \o <<"vlans">>
VLAN == VLANs \o <<"{interface}", "{vlan_id}">>
Policies == Dev \o <<"firewall", "policies">>
Policy == Policies \o <<"{policy}">>
PolicyRule == Policy \o <<"rules", "{rule_id}">>
AddressGroups == Dev \o <<"firewall", "address-groups">>
NATRules == Dev \o <<"nat", "{nat_type}", "rules">>

(* the routes main registers, in the order of registration *)
Routes ==
    << Route("GET", <<"health">>, "Health"),
       Route("GET", <<"devices">>, "ListDevices"),
       Route("GET", Networks, "ListNetworks"),
       Route("POST", Networks, "CreateNetwork"),
       Route("GET", Networks \o <<"{interface}">>, "GetNetwork"),
       Route("PUT", Networks \o <<"{interface}">>, "UpdateNetwork"),
       Route("DELETE", Networks \o <<"{interface}">>, "DeleteNetwork"),
       Route("GET", VRFs, "ListVRFs"),
       Route("POST", VRFs, "CreateVRF"),
       Route("GET", VRFs \o <<"{vrf}">>, "GetVRF"),
       Route("PUT", VRFs \o <<"{vrf}">>, "UpdateVRF"),
       Route("DELETE", VRFs \o <<"{vrf}">>, "DeleteVRF"),
       Route("GET", VLANs, "ListVLANs"),
       Route("POST", VLANs, "CreateVLAN"),
       Route("GET", VLAN, "GetVLAN"),
       Route("PUT", VLAN, "UpdateVLAN"),
       Route("DELETE", VLAN, "DeleteVLAN"),
       Route("GET", Policies, "ListPolicies"),
       Route("POST", Policies, "CreatePolicy"),
       Route("GET", Policy, "GetPolicy"),
       Route("PUT", Policy, "UpdatePolicy"),
       Route("DELETE", Policy, "DeletePolicy"),
       Route("POST", Policy \o <<"rules">>, "AddRule"),
       Route("DELETE", PolicyRule, "DeleteRule"),
       Route("PUT", Policy \o <<"disable">>, "DisablePolicy"),
       Route("PUT", Policy \o <<"enable">>, "EnablePolicy"),
       Route("PUT", PolicyRule \o <<"disable">>, "DisableRule"),
       Route("PUT", PolicyRule \o <<"enable">>, "EnableRule"),
       Route("GET", AddressGroups, "ListAddressGroups"),
       Route("POST", AddressGroups, "CreateAddressGroup"),
       Route("GET", AddressGroups \o <<"{group}">>, "GetAddressGroup"),
       Route("PUT", AddressGroups \o <<"{group}">>, "UpdateAddressGroup"),
       Route("DELETE", AddressGroups \o <<"{group}">>, "DeleteAddressGroup") >>

(* README.md, Endpoints: every endpoint of the tables with the handler     *)
(* whose comment names that method and path                                *)
Listed ==
    {Routes[i] : i \in 1..Len(Routes)}
    \cup {Route("GET", NATRules, "ListNATRules"),
          Route("POST", NATRules, "CreateNATRule"),
          Route("GET", NATRules \o <<"{rule_id}">>, "GetNATRule"),
          Route("PUT", NATRules \o <<"{rule_id}">>, "UpdateNATRule"),
          Route("DELETE", NATRules \o <<"{rule_id}">>, "DeleteNATRule")}

PathVars == {"{device_id}", "{interface}", "{vrf}", "{vlan_id}", "{policy}", "{rule_id}",
             "{group}", "{nat_type}"}

(* a route's path template against the segments of a request path: a       *)
(* variable matches one segment, which is never empty                      *)
MatchPath(pattern, path) ==
    /\ Len(pattern) = Len(path)
    /\ \A i \in 1..Len(pattern) :
          IF pattern[i] \in PathVars THEN path[i] # "" ELSE path[i] = pattern[i]

NotFound == "NotFound"
MethodNotAllowed == "MethodNotAllowed"

(* mux.Router: the first route whose path and method both match gets the   *)
(* request; a path that only routes of other methods match is answered    *)
(* 405, a path no route matches by the not-found handler                   *)
ServeHTTP(routes, method, path) ==
    LET byPath == {i \in 1..Len(routes) : MatchPath(routes[i].pattern, path)}
        full == {i \in byPath : routes[i].method = method}
    IN IF full # {} THEN routes[CHOOSE i \in full : \A j \in full : i <= j].handler
       ELSE IF byPath # {} THEN MethodNotAllowed
       ELSE NotFound

(* the requests sent to the router: every method on every path that an     *)
(* endpoint of the README describes, and on a path it does not describe    *)
Methods == {"GET", "POST", "PUT", "DELETE"}

SegmentValues(seg) ==
    IF seg = "{nat_type}" THEN {"source", "destination"}
    ELSE IF seg = "{rule_id}" THEN {"10"}
    ELSE IF seg \in PathVars THEN {"x"}
    ELSE {seg}

RECURSIVE Instances(_)
Instances(pattern) ==
    IF pattern = << >> THEN {<< >>}
    ELSE {<<v>> \o t : v \in SegmentValues(Head(pattern)), t \in Instances(Tail(pattern))}

RouterPaths ==
    UNION {Instances(e.pattern) : e \in Listed} \cup {<<"devices", "x", "unknown">>}

InitRouter ==
    /\ cur = Idle
    /\ pc = 0
    /\ calls = << >>
    /\ last = NoWire
    /\ acc = NilSlice
    /\ resp = NoResp
    /\ store = {}
    /\ ctx = Live
    /\ fn = "none"
    /\ arg \in [method : Methods, path : RouterPaths]
    /\ ret = "none"

(* the router takes the request and hands it to a handler *)
Dispatch ==
    /\ fn = "none"
    /\ fn' = "ServeHTTP"
    /\ ret' = ServeHTTP(Routes, arg.method, arg.path)
    /\ UNCHANGED <<arg, servevars>>

NextRouter == Dispatch

SpecRouter == InitRouter /\ [][NextRouter]_vars

----------------------------------------------------------------------------
(* Properties. *)

CreateOps == {"CreateVRF", "CreateNetwork", "CreateVLAN", "CreatePolicy", "AddRule",
              "CreateNATRule", "CreateRoute", "CreateDHCPServer"}

(* the calls the handler of the current request would issue if none failed *)
Template == PlanOf(cur, NoEnvelope, "fwd").steps

(* C1: in every Create operation, when the first (anchor) set fails, the    *)
(* request ends there: the response is 502 for a transport failure and 422  *)
(* for a logical rejection, and no second remote call is ever issued.       *)
C1_AnchorFailureEnds ==
    (cur.h \in CreateOps /\ Len(calls) >= 1 /\ calls[1].res # "ok")
        => /\ Len(calls) = 1
           /\ resp.status = (IF calls[1].res = "transport" THEN StatusBadGateway
                             ELSE StatusUnprocessableEntity)

(* a Create request with optional fields pending whose anchor was rejected *)
C1_Witness ==
    /\ cur.h = "CreateDHCPServer"
    /\ Len(Template) > 1
    /\ Len(calls) = 1
    /\ calls[1].res = "rejected"
    /\ resp.status = StatusUnprocessableEntity

(* the request fields a Create response carries as strings and as numbers *)
StrFields(h) ==
    CASE h = "CreateVRF" -> {"name", "table", "description"}
      [] h = "CreateNetwork" -> {"interface", "type", "description"}
      [] h = "CreateVLAN" -> {"interface", "type", "description"}
      [] h = "CreatePolicy" -> {"name", "default_action", "description"}
      [] h = "AddRule" -> {"action", "source", "source_group", "destination",
                           "destination_group", "description"}
      [] h = "CreateNATRule" -> {NATTemplate[i] : i \in 1..Len(NATTemplate)}
                                 \cup {"translation_address"}
      [] h = "CreateRoute" -> {"network", "next_hop", "distance", "description"}
      [] h = "CreateDHCPServer" -> {"name", "subnet", "default_router", "range_start",
                                    "range_stop", "lease"}
      [] OTHER -> {}

NumFields(h) ==
    CASE h \in {"AddRule", "CreateNATRule"} -> {"rule_id"}
      [] h = "CreateVLAN" -> {"vlan_id"}
      [] OTHER -> {}

(* the members of a response object; for a DHCP server also those of its    *)
(* first subnet                                                             *)
EchoTarget(h, body) ==
    IF h = "CreateDHCPServer" /\ "subnets" \in DOMAIN body.o /\ body.o["subnets"].j = "array"
       /\ Len(body.o["subnets"].a) = 1
    THEN body.o["subnets"].a[1].o @@ body.o
    ELSE body.o

(* the response body carries every field the request gave, with its value *)
Echoes(h, b, body) ==
    LET t == EchoTarget(h, body)
    IN /\ \A k \in StrFields(h) : b[k] # << >> => (k \in DOMAIN t /\ t[k] = JStr(b[k]))
       /\ \A k \in NumFields(h) : k \in DOMAIN t /\ t[k] = JNum(b[k])
       /\ (h \in {"CreateNetwork", "CreateVLAN"} /\ b.address # << >>)
             => ("addresses" \in DOMAIN t /\ t["addresses"] = JArr(<<JStr(b.address)>>))
       /\ (h = "CreateDHCPServer" /\ GoLen(b.dns_servers) > 0)
             => ("dns_servers" \in DOMAIN t
                 /\ t["dns_servers"] = JArr([i \in 1..GoLen(b.dns_servers) |->
                                                JStr(b.dns_servers.elems[i])]))

(* C2: in every Create operation whose anchor set succeeded, whatever the   *)
(* later optional-field sets answer (transport failure, rejection or        *)
(* success), the request issues every set of its template and answers 201   *)
(* with a body that echoes every field of the request.                      *)
C2_OptionalFailureStill201 ==
    (cur.h \in CreateOps /\ Len(calls) >= 1 /\ calls[1].res = "ok")
        => /\ resp.status \in {0, StatusCreated}
           /\ resp.status = StatusCreated
                 => (Len(calls) = Len(Template) /\ Echoes(cur.h, cur.body, resp.body))
           /\ resp.status = 0 => Len(calls) < Len(Template)

(* CreateVRF: the description set failed in transport, 201 echoes it *)
C2_Witness ==
    /\ cur.h = "CreateVRF"
    /\ Len(calls) = 2
    /\ calls[2].res = "transport"
    /\ resp.status = StatusCreated
    /\ resp.body.o["description"] = JStr(cur.body.description)

UpdateOps == {"UpdateVRF", "UpdateVLAN", "UpdateNetwork", "UpdatePolicy",
              "UpdateAddressGroup", "UpdateNATRule", "UpdateRoute", "UpdateDHCPServer"}

(* the number of leading path segments that name the resource itself *)
IdLen(h) ==
    CASE h \in {"UpdateVRF", "UpdateNetwork", "CreateVRF", "CreateNetwork"} -> 3
      [] h \in {"UpdateVLAN", "CreateVLAN"} -> 5
      [] h \in {"UpdateDHCPServer", "CreateDHCPServer"} -> 6
      [] OTHER -> 4

(* the keywords under which the optional fields of the resources are set *)
OptionalWords == {"description", "distance", "port", "protocol", "outbound-interface",
                  "inbound-interface", "source", "destination", "default-router",
                  "name-server", "range", "lease"}

(* call c of handler h sets an optional field of the resource *)
IsOptionalSet(h, c) ==
    /\ c.op = "set"
    /\ \E i \in (IdLen(h) + 1)..Len(c.path) : c.path[i] \in {S(w) : w \in OptionalWords}

(* the latest call of the request set an optional field and failed *)
OptionalSetFailed ==
    /\ Len(calls) >= 1
    /\ IsOptionalSet(cur.h, calls[Len(calls)])
    /\ calls[Len(calls)].res # "ok"

(* the failure of the latest call is not surfaced and the steps after it    *)
(* are still to be issued                                                   *)
NotSurfaced ==
    IF Len(calls) < Len(Template) THEN resp.status = 0 ELSE resp.status = StatusOK

(* C3 as stated: in every Update operation the failure of an optional-field *)
(* set is not surfaced and the steps that follow are still issued.          *)
C3_Original ==
    (cur.h \in UpdateOps /\ OptionalSetFailed) => NotSurfaced

(* C3 amended: in every Update operation but UpdateVRF the failure of an    *)
(* optional-field set is not surfaced (no 502, no 422) and the steps that   *)
(* follow are still issued; in UpdateVRF a failed description set ends the  *)
(* request with 502 (transport) or 422 (rejection) before the read-back.    *)
C3_OptionalFailureNotSurfaced ==
    /\ (cur.h \in UpdateOps \ {"UpdateVRF"} /\ OptionalSetFailed) => NotSurfaced
    /\ (cur.h = "UpdateVRF" /\ OptionalSetFailed)
          => /\ resp.status = (IF calls[Len(calls)].res = "transport" THEN StatusBadGateway
                               ELSE StatusUnprocessableEntity)
             /\ Len(calls) < Len(Template)

(* UpdatePolicy: the description set was rejected, the read-back was still  *)
(* issued and the request answered 200                                      *)
C3_Witness ==
    /\ cur.h = "UpdatePolicy"
    /\ Len(calls) = 3
    /\ IsOptionalSet(cur.h, calls[2])
    /\ calls[2].res = "rejected"
    /\ calls[3].op = "get"
    /\ resp.status = StatusOK

GetOps == {"GetVRF", "GetNetwork", "GetVLAN", "GetPolicy", "GetAddressGroup",
           "GetNATRule", "GetRoute", "GetDHCPServer"}

DeleteOps == {"DeleteVRF", "DeleteNetwork", "DeleteVLAN", "DeletePolicy", "DeleteRule",
              "DeleteAddressGroup", "DeleteNATRule", "DeleteRoute", "DeleteDHCPServer"}

ToggleOps == {"EnablePolicy", "DisablePolicy", "EnableRule", "DisableRule"}

(* the operations whose first call is the mutation that makes or removes    *)
(* the resource or its flag                                                 *)
MutationOps == CreateOps \cup {"CreateAddressGroup"} \cup DeleteOps \cup ToggleOps

(* C4: when the device answers the first call of a request with transport   *)
(* success and a false logical flag, a Get-by-identifier answers 404 and a  *)
(* mutation (Create anchor, Delete, Enable, Disable) answers 422.           *)
C4_RejectionByKind ==
    (Len(calls) = 1 /\ calls[1].res = "rejected")
        => /\ cur.h \in GetOps => resp.status = StatusNotFound
           /\ cur.h \in MutationOps => resp.status = StatusUnprocessableEntity

(* a Get whose get was rejected with "Path does not exist" answered 404 *)
C4_Witness ==
    /\ cur.h = "GetDHCPServer"
    /\ Len(calls) = 1
    /\ calls[1].op = "get"
    /\ last.status = 200 /\ ~last.success /\ last.error = MsgNoPath
    /\ resp.status = StatusNotFound

(* the List operations with the HTTP 400 exception *)
PathNotFoundLists == {"ListNATRules", "ListRoutes", "ListDHCPServers"}

(* the first call of the request met a refused connection *)
FirstCallRefused == Len(calls) = 1 /\ last.net = "refused"

(* C5 as stated: a refused connection during ListNATRules, ListRoutes or    *)
(* ListDHCPServers is answered with 200 and [], and during the anchor of a  *)
(* Create operation with 502.                                               *)
C5_Original ==
    FirstCallRefused
        => /\ cur.h \in PathNotFoundLists => resp = Reply(StatusOK, JArr(<< >>))
           /\ cur.h \in CreateOps \cup {"CreateAddressGroup"}
                 => resp.status = StatusBadGateway

(* C5 amended: a refused connection during ListNATRules, ListRoutes or      *)
(* ListDHCPServers is answered with 502, exactly as during the anchor of a  *)
(* Create operation; it is never answered with 200 and [].                  *)
C5_RefusedIs502 ==
    (FirstCallRefused
     /\ cur.h \in PathNotFoundLists \cup CreateOps \cup {"CreateAddressGroup"})
        => resp.status = StatusBadGateway

(* ListRoutes met a refused connection and answered 502 *)
C5_Witness ==
    /\ cur.h = "ListRoutes"
    /\ FirstCallRefused
    /\ calls[1].res = "transport"
    /\ resp.status = StatusBadGateway

ListOps == {"ListNetworks", "ListVRFs", "ListVLANs", "ListPolicies", "ListAddressGroups",
            "ListNATRules", "ListRoutes", "ListDHCPServers"}

(* the device answered the latest call of the request with HTTP 400 *)
LatestIs400 == Len(calls) >= 1 /\ last.net = "ok" /\ last.status = StatusBadRequest

(* the latest call is one whose outcome the handler discards: an optional-  *)
(* field set (but the description set of UpdateVRF), the delete of          *)
(* UpdateAddressGroup and UpdateVLAN, a base-chain get of ListPolicies      *)
LatestIsBestEffort ==
    LET c == calls[Len(calls)]
    IN \/ cur.h # "UpdateVRF" /\ IsOptionalSet(cur.h, c)
       \/ cur.h \in {"UpdateAddressGroup", "UpdateVLAN"} /\ c.op = "delete"
       \/ cur.h = "ListPolicies" /\ Len(calls) > 1

(* C6 as stated: HTTP 400 on the list get of ListNATRules, ListRoutes or    *)
(* ListDHCPServers is answered with 200 and []; on any call of any other    *)
(* List and of any Get, Create, Update and Delete it is answered with 502.  *)
C6_Original ==
    LatestIs400
        => /\ cur.h \in PathNotFoundLists => resp = Reply(StatusOK, JArr(<< >>))
           /\ cur.h \in (ListOps \ PathNotFoundLists) \cup GetOps \cup CreateOps
                        \cup {"CreateAddressGroup"} \cup UpdateOps \cup DeleteOps
                 => resp.status = StatusBadGateway

(* C6 amended: HTTP 400 with a body that decodes as JSON on the list get of *)
(* ListNATRules, ListRoutes or ListDHCPServers is answered with 200 and []  *)
(* (502 when the body does not decode); on a call of any other List and of  *)
(* any Get, Create, Update and Delete whose outcome the handler checks it   *)
(* is answered with 502, and on a call whose outcome the handler discards   *)
(* it is answered with neither 502 nor 422.                                 *)
C6_Http400PathNotFound ==
    LatestIs400
        => /\ cur.h \in PathNotFoundLists
                 => resp = (IF last.json THEN Reply(StatusOK, JArr(<< >>))
                            ELSE writeError(StatusBadGateway))
           /\ cur.h \in (ListOps \ PathNotFoundLists) \cup GetOps \cup CreateOps
                        \cup {"CreateAddressGroup"} \cup UpdateOps \cup DeleteOps
                 => IF LatestIsBestEffort
                    THEN resp.status \in {0, StatusOK, StatusCreated}
                    ELSE resp.status = StatusBadGateway

(* ListNATRules: HTTP 400 with a JSON body on the list get, answered 200 [] *)
C6_Witness ==
    /\ cur.h = "ListNATRules"
    /\ LatestIs400
    /\ last.json
    /\ calls[1].res = "transport"
    /\ resp = Reply(StatusOK, JArr(<< >>))

(* the first call of a List was answered with a false logical flag *)
ListRejected == cur.h \in ListOps /\ Len(calls) = 1 /\ calls[1].res = "rejected"

(* C7 as stated: every List answers a logically-false answer whose error    *)
(* text says empty or non-existent path with 200 and an empty collection,   *)
(* and one with any other error text with 422.                              *)
C7_Original ==
    ListRejected
        => IF last.error \in {MsgEmpty, MsgNoPath}
           THEN IF cur.h = "ListPolicies" THEN resp.status \in {0, StatusOK}
                ELSE resp = Reply(StatusOK, JArr(<< >>))
           ELSE resp.status = StatusUnprocessableEntity

(* C7 amended: ListAddressGroups, ListNATRules, ListRoutes and              *)
(* ListDHCPServers answer a logically-false answer whose error text         *)
(* contains "empty" with 200 and [], and ListPolicies then goes on to its   *)
(* base-chain gets; these five answer any other error text, "Path does not  *)
(* exist" included, with 422; ListNetworks, ListVRFs and ListVLANs answer   *)
(* every logically-false answer with 422.                                   *)
C7_EmptyByText ==
    ListRejected
        => IF cur.h \in {"ListNetworks", "ListVRFs", "ListVLANs"} \/ last.error # MsgEmpty
           THEN resp.status = StatusUnprocessableEntity
           ELSE IF cur.h = "ListPolicies" THEN resp.status = 0
           ELSE resp = Reply(StatusOK, JArr(<< >>))

(* ListAddressGroups: "Configuration under specified path is empty" gives   *)
(* 200 and []                                                               *)
C7_Witness ==
    /\ cur.h = "ListAddressGroups"
    /\ ListRejected
    /\ last.error = MsgEmpty
    /\ resp = Reply(StatusOK, JArr(<< >>))

(* the updates that delete the address list and set it anew *)
FullReplace ==
    /\ cur.h \in {"UpdateAddressGroup", "UpdateVLAN", "UpdateNetwork"}
    /\ Len(calls) >= 1
    /\ calls[1].op = "delete"

(* call c sets a member of the address list *)
IsAddressSet(c) == c.op = "set" /\ Len(c.path) >= 2 /\ c.path[Len(c.path) - 1] = S("address")

(* the first failing address set ended the request and no call followed it *)
SetPhaseFatal ==
    /\ \A i \in 1..(Len(calls) - 1) : ~(IsAddressSet(calls[i]) /\ calls[i].res # "ok")
    /\ (IsAddressSet(calls[Len(calls)]) /\ calls[Len(calls)].res # "ok")
          => resp.status = (IF calls[Len(calls)].res = "transport" THEN StatusBadGateway
                            ELSE StatusUnprocessableEntity)

(* C8 as stated: in every full-replace update a failed delete, transport or *)
(* rejection, is ignored and the sets that follow are still issued; the     *)
(* first failing set ends the request with 502 or 422.                      *)
C8_Original ==
    FullReplace
        => /\ (Len(calls) = 1 /\ calls[1].res # "ok") => NotSurfaced
           /\ SetPhaseFatal

(* C8 amended: in UpdateAddressGroup and UpdateVLAN with an address a       *)
(* failed delete, transport or rejection, is ignored and the sets that      *)
(* follow are still issued; in UpdateNetwork only a rejection of the delete *)
(* is ignored, a transport failure of it ends the request with 502 before   *)
(* any set; the first failing address set ends the request with 502 or 422  *)
(* and no later set is issued.                                              *)
C8_DeleteFailure ==
    FullReplace
        => /\ (Len(calls) = 1 /\ calls[1].res # "ok")
                 => IF cur.h = "UpdateNetwork" /\ calls[1].res = "transport"
                    THEN resp.status = StatusBadGateway
                    ELSE NotSurfaced
           /\ SetPhaseFatal

(* UpdateAddressGroup: the delete failed in transport, the member set was   *)
(* still issued, was rejected and ended the request with 422                *)
C8_Witness ==
    /\ cur.h = "UpdateAddressGroup"
    /\ Len(calls) = 2
    /\ calls[1].op = "delete" /\ calls[1].res = "transport"
    /\ IsAddressSet(calls[2]) /\ calls[2].res = "rejected"
    /\ Len(Template) > 2
    /\ resp.status = StatusUnprocessableEntity

(* the addresses a request body lists *)
Requested(b) == {b.addresses.elems[i] : i \in 1..GoLen(b.addresses)}

(* C9: whenever UpdateAddressGroup returns 200, the address members the     *)
(* device stores for the group are exactly the addresses of the request:    *)
(* no member of the previous list survives the update.                      *)
C9_FullReplaceExact ==
    (cur.h = "UpdateAddressGroup" /\ resp.status = StatusOK)
        => Members(store, cur.vars.group) = Requested(cur.body)

(* UpdateAddressGroup answered 200 after its delete had failed, and the     *)
(* device holds a member the request did not list                           *)
C9_Witness ==
    /\ cur.h = "UpdateAddressGroup"
    /\ resp.status = StatusOK
    /\ calls[1].op = "delete" /\ calls[1].res # "ok"
    /\ \A i \in 2..Len(calls) : calls[i].res = "ok"
    /\ Members(store, cur.vars.group) \ Requested(cur.body) # {}

AddressesHandlers ==
    {"ListNetworks", "CreateNetwork", "GetNetwork", "UpdateNetwork",
     "ListVLANs", "CreateVLAN", "GetVLAN", "UpdateVLAN",
     "ListAddressGroups", "CreateAddressGroup", "GetAddressGroup", "UpdateAddressGroup"}

SubnetsHandlers ==
    {"ListDHCPServers", "CreateDHCPServer", "GetDHCPServer", "UpdateDHCPServer"}

(* the resource representations a response body carries *)
Representations(body) ==
    IF body.j = "array" THEN {body.a[i] : i \in 1..Len(body.a)}
    ELSE IF body.j = "object" THEN {body}
    ELSE {}

(* member k of object x is there and is a JSON array *)
IsArrayField(x, k) == k \in DOMAIN x.o /\ x.o[k].j = "array"

(* C10: in every success response each list-typed field (addresses of       *)
(* Network, VLAN and AddressGroup; subnets and dns_servers of DHCP) is a    *)
(* JSON array, never null and never missing.                                *)
C10_ListFieldsAreArrays ==
    resp.status \in {StatusOK, StatusCreated}
        => /\ cur.h \in AddressesHandlers
                 => \A x \in Representations(resp.body) : IsArrayField(x, "addresses")
           /\ cur.h \in SubnetsHandlers
                 => \A x \in Representations(resp.body) :
                        /\ IsArrayField(x, "subnets")
                        /\ \A i \in 1..Len(x.o["subnets"].a) :
                               IsArrayField(x.o["subnets"].a[i], "dns_servers")

(* CreateAddressGroup answered 201 to a request without addresses and the   *)
(* body carries "addresses": null                                           *)
C10_Witness ==
    /\ cur.h = "CreateAddressGroup"
    /\ cur.body.addresses.nil
    /\ resp.status = StatusCreated
    /\ resp.body.o["addresses"] = JNull

(* C11: every List operation that answers 200 returns a JSON array as its   *)
(* body; when the device holds no resource of the kind the body is [] and   *)
(* never null.                                                              *)
C11_ListBodyIsArray ==
    (cur.h \in ListOps /\ resp.status = StatusOK) => resp.body.j = "array"

(* ListPolicies: the named-policy get was answered "empty", no base chain   *)
(* gave a policy, and the 200 carries the body null                         *)
C11_Witness ==
    /\ cur.h = "ListPolicies"
    /\ Len(calls) = Len(Template)
    /\ calls[1].res = "rejected"
    /\ resp.status = StatusOK
    /\ resp.body = JNull

(* the body fields each Create handler requires: strings and numbers *)
RequiredStrings(h) ==
    CASE h = "CreateVRF" -> {"name", "table"}
      [] h = "CreateNetwork" -> {"interface", "type", "address"}
      [] h = "CreateVLAN" -> {"interface", "type"}
      [] h = "CreatePolicy" -> {"name", "default_action"}
      [] h = "AddRule" -> {"action"}
      [] h = "CreateNATRule" -> {"translation_address"}
      [] h = "CreateRoute" -> {"network", "next_hop"}
      [] h = "CreateDHCPServer" -> {"name", "subnet"}
      [] h = "CreateAddressGroup" -> {"name"}
      [] OTHER -> {}

RequiredNumbers(h) ==
    CASE h = "CreateVLAN" -> {"vlan_id"}
      [] h \in {"AddRule", "CreateNATRule"} -> {"rule_id"}
      [] OTHER -> {}

(* the current request is a Create whose body lacks a required field *)
RequiredFieldEmpty ==
    /\ cur.h \in CreateOps \cup {"CreateAddressGroup"}
    /\ \/ \E k \in RequiredStrings(cur.h) : cur.body[k] = << >>
       \/ \E k \in RequiredNumbers(cur.h) : cur.body[k] = 0

DeviceScoped == ListOps \cup GetOps \cup CreateOps \cup {"CreateAddressGroup"}
                \cup UpdateOps \cup DeleteOps \cup ToggleOps

(* C13: for every device-scoped operation a device_id that is not in the    *)
(* registry is answered with 404 and no remote call is made; the check      *)
(* comes before body validation, so an invalid body for an unknown device   *)
(* is answered with 404, not 400.                                           *)
C13_UnknownDevice404 ==
    (cur.h \in DeviceScoped /\ cur.dev \notin Registry)
        => (resp = writeError(StatusNotFound) /\ Len(calls) = 0 /\ pc = 0)

(* CreateVRF for an unknown device with a body that does not decode: 404 *)
C13_Witness ==
    /\ cur.h = "CreateVRF"
    /\ cur.dev \notin Registry
    /\ ~cur.bodyOK
    /\ resp.status = StatusNotFound
    /\ Len(calls) = 0

(* the string elements of a list node, in their order *)
StringElements(xs) ==
    LET strs == SelectSeq(xs, LAMBDA x : x.t = "str")
    IN [i \in 1..Len(strs) |-> strs[i].s]

(* C14: toStringSlice returns a one-element sequence holding the value for  *)
(* a single string; for a list its string elements in their order, every    *)
(* other element dropped; and the empty, non-nil sequence for a missing     *)
(* node or one of any other shape.                                          *)
C14_ToStringSlice ==
    fn = "toStringSlice"
        => /\ ~ret.nil
           /\ ret.elems = (IF arg.t = "str" THEN <<arg.s>>
                           ELSE IF arg.t = "list" THEN StringElements(arg.l)
                           ELSE << >>)

(* a list of a string, a map and a string normalized to the two strings *)
C14_Witness ==
    /\ fn = "toStringSlice"
    /\ arg = TList(<<TStr(S("b")), TMap(EmptyObj), TStr(S("a"))>>)
    /\ ret = Slice(<<S("b"), S("a")>>)

(* the key disable exists in a tree node *)
DisableKey(node) == node.t = "map" /\ "disable" \in DOMAIN node.m

(* the disabled flag of a resource representation; the field is left out   *)
(* of the JSON object when it is false                                      *)
Disabled(x) == "disabled" \in DOMAIN x.o /\ x.o["disabled"] = JBool(TRUE)

(* the rule nodes of a policy node *)
RulesOf(node) ==
    IF node.t = "map" /\ "rule" \in DOMAIN node.m /\ node.m["rule"].t = "map"
    THEN node.m["rule"].m ELSE EmptyObj

(* C15: for policies, firewall rules and NAT rules the normalized disabled  *)
(* flag is true exactly when the key disable exists in the resource's tree  *)
(* node, whatever its value, and false exactly when the key is absent.      *)
C15_DisabledIffKey ==
    /\ fn = "parsePolicyData"
          => /\ Disabled(ret) <=> DisableKey(arg)
             /\ \A id \in DOMAIN RulesOf(arg) :
                    /\ "rules" \in DOMAIN ret.o
                    /\ id \in DOMAIN ret.o["rules"].o
                    /\ Disabled(ret.o["rules"].o[id]) <=> DisableKey(RulesOf(arg)[id])
    /\ fn = "parseNATRuleData" => (Disabled(ret) <=> DisableKey(arg))

(* a policy whose rule 10 holds disable with a null value and whose rule 20 *)
(* has no such key: rule 10 is disabled, rule 20 and the policy are not     *)
C15_Witness ==
    /\ fn = "parsePolicyData"
    /\ ~DisableKey(arg)
    /\ DOMAIN RulesOf(arg) = {"10", "20"}
    /\ DisableKey(RulesOf(arg)["10"]) /\ RulesOf(arg)["10"].m["disable"] = TNull
    /\ ~DisableKey(RulesOf(arg)["20"])
    /\ ~Disabled(ret)
    /\ Disabled(ret.o["rules"].o["10"])
    /\ ~Disabled(ret.o["rules"].o["20"])

----------------------------------------------------------------------------
(* the path whose presence in the store is the disable flag of a policy,    *)
(* and of one of its rules: the path DisablePolicy and DisableRule set      *)
PolicyFlag(policy) ==
    pathToArr(DisablePolicy(Req("DisablePolicy", "r1", [policy |-> policy],
                                << >>, TRUE, NoFields),
                            NoEnvelope, "fwd").steps[1].path)

RuleFlag(policy, id) ==
    pathToArr(DisableRule(Req("DisableRule", "r1", [policy |-> policy, rule_id |-> id],
                              << >>, TRUE, NoFields),
                          NoEnvelope, "fwd").steps[1].path)

(* the flag path of the toggle request in hand *)
ToggledFlag ==
    IF cur.h \in {"DisablePolicy", "EnablePolicy"} THEN PolicyFlag(cur.vars.policy)
    ELSE RuleFlag(cur.vars.policy, cur.vars.rule_id)

(* a toggle sends at most one call, a delete for Enable and a set for       *)
(* Disable, of a path ending in disable; answered 200 it has sent exactly   *)
(* one, and the store holds the flag after Disable and not after Enable     *)
ToggleCalls ==
    cur.h \in ToggleOps
        => /\ Len(calls) <= 1
           /\ \A i \in 1..Len(calls) :
                  /\ calls[i].op = (IF cur.h \in {"EnablePolicy", "EnableRule"}
                                    THEN "delete" ELSE "set")
                  /\ calls[i].path = ToggledFlag
                  /\ calls[i].path[Len(calls[i].path)] = S("disable")
           /\ resp.status = StatusOK
                  => /\ Len(calls) = 1
                     /\ ToggledFlag \in store <=> cur.h \in {"DisablePolicy", "DisableRule"}

(* the GetPolicy in hand was answered 200 out of the store *)
ServedFromStore ==
    /\ cur.h = "GetPolicy"
    /\ resp.status = StatusOK
    /\ Len(calls) = 1
    /\ last = WireOf("ok", StoredData(store, calls[1].path))

RuleShownDisabled(id) ==
    /\ "rules" \in DOMAIN resp.body.o
    /\ id \in DOMAIN resp.body.o["rules"].o
    /\ Disabled(resp.body.o["rules"].o[id])

(* a GetPolicy served from the store shows the policy, and each rule,       *)
(* disabled exactly when the store holds its flag                           *)
StoredFlagShown ==
    ServedFromStore
        => /\ Disabled(resp.body) <=> PolicyFlag(cur.vars.policy) \in store
           /\ \A id \in {"10"} :
                  RuleShownDisabled(id) <=> RuleFlag(cur.vars.policy, S(id)) \in store

(* C16: EnablePolicy and EnableRule send exactly one delete of the path     *)
(* ending in disable and never a set, DisablePolicy and DisableRule exactly *)
(* one set of that path; against a store that applies the calls, a Get      *)
(* after Disable shows disabled = true and a Get after a later Enable shows *)
(* disabled = false.                                                        *)
C16_ToggleRoundTrip == ToggleCalls /\ StoredFlagShown

(* the store holds the flag DisablePolicy set for the policy forward, and   *)
(* GetPolicy of forward, served from the store, does not show it disabled   *)
C16_Witness ==
    /\ ServedFromStore
    /\ cur.vars.policy = S("forward")
    /\ PolicyFlag(S("forward")) \in store
    /\ ~Disabled(resp.body)

----------------------------------------------------------------------------
(* writeJSON encodes PolicyInfo.Rules, a Go map keyed by the rule id as a   *)
(* string; the encoder writes the keys of a map sorted as strings, byte by  *)
(* byte, whatever order the map was filled in.                              *)

KeyBytes == ("10" :> <<49, 48>>) @@ ("20" :> <<50, 48>>) @@ ("100" :> <<49, 48, 48>>)

RECURSIVE BytesLess(_, _)
BytesLess(a, b) ==
    IF Len(a) = 0 THEN Len(b) > 0
    ELSE IF Len(b) = 0 THEN FALSE
    ELSE IF a[1] # b[1] THEN a[1] < b[1]
    ELSE BytesLess(Tail(a), Tail(b))

RECURSIVE MarshalKeys(_)
MarshalKeys(ks) ==
    IF ks = {} THEN << >>
    ELSE LET k == CHOOSE x \in ks :
                      \A y \in ks \ {x} : BytesLess(KeyBytes[x], KeyBytes[y])
         IN <<k>> \o MarshalKeys(ks \ {k})

(* the rule ids of the response in hand, in the order the body presents them *)
PresentedRules == MarshalKeys(DOMAIN resp.body.o["rules"].o)

(* C17: the rules of a GetPolicy response are presented in ascending order  *)
(* of their numeric rule identifier, whatever order the device's map yields *)
(* them in.                                                                 *)
C17_RulesAscending ==
    (cur.h = "GetPolicy" /\ resp.status = StatusOK /\ "rules" \in DOMAIN resp.body.o)
        => \A i, j \in 1..Len(PresentedRules) :
               i < j => Numerals[PresentedRules[i]] < Numerals[PresentedRules[j]]

(* the device holds the rules 10, 20 and 100 and the response presents      *)
(* rule 100 before rule 20                                                  *)
C17_Witness ==
    /\ cur.h = "GetPolicy"
    /\ resp.status = StatusOK
    /\ "rules" \in DOMAIN resp.body.o
    /\ DOMAIN RulesOf(GetPolicyData(cur.vars.policy, last.data)) = {"10", "20", "100"}
    /\ PresentedRules = <<"10", "100", "20">>

----------------------------------------------------------------------------
(* the key the device wraps the collection of a List operation in *)
Wrapper == ("ListVRFs" :> "name") @@ ("ListAddressGroups" :> "address-group")

(* the collection the claim keeps: the map under the wrapper key when that  *)
(* key is the only one and maps to a map, the fetched map itself otherwise  *)
Kept(rawMap, key) ==
    IF DOMAIN rawMap = {key} /\ IsMap(rawMap[key]) THEN rawMap[key].m ELSE rawMap

(* the names of the resources of the response in hand *)
ListedNames == {resp.body.a[i].o["name"].s : i \in 1..Len(resp.body.a)}

(* C18: a List operation unwraps one envelope layer only when the fetched   *)
(* data is a map whose only key is the wrapper key and that key maps to a   *)
(* map; in every other case each top-level key is kept as one resource, so  *)
(* a collection holding a resource named like the wrapper key next to       *)
(* others loses none of them.                                               *)
C18_UnwrapOnlyEnvelope ==
    (cur.h \in DOMAIN Wrapper /\ resp.status = StatusOK /\ last.success)
        => ListedNames = {S(k) : k \in DOMAIN Kept(AsMap(last.data), Wrapper[cur.h])}

(* the device returns the VRFs name and MGMT without an envelope; the       *)
(* response lists neither of them but the fields of the VRF called name     *)
C18_Witness ==
    /\ cur.h = "ListVRFs"
    /\ resp.status = StatusOK
    /\ last.success
    /\ DOMAIN AsMap(last.data) = {"name", "MGMT"}
    /\ ListedNames = {S("table")}

----------------------------------------------------------------------------
(* the anchor path of the claim for the CreateVRF request in hand *)
AnchorTemplate == <<S("vrf"), S("name"), cur.body.name, S("table"), cur.body.table>>

(* a Go string without a whitespace character *)
NoSpace(str) == \A i \in 1..Len(str) : str[i] # SP

(* the CreateVRF in hand has passed validation and sent its anchor set *)
AnchorSent == cur.h = "CreateVRF" /\ Len(calls) >= 1

(* C19 as stated: for every CreateVRF request that passes validation the    *)
(* path of the anchor set is exactly the five segments vrf, name, <name>,   *)
(* table, <table>.                                                          *)
C19_Original ==
    AnchorSent => (calls[1].op = "set" /\ Len(calls[1].path) = 5
                   /\ calls[1].path = AnchorTemplate)

(* C19 amended: for every CreateVRF request that passes validation and      *)
(* whose name and table hold no whitespace, the path of the anchor set is   *)
(* exactly the five segments vrf, name, <name>, table, <table>.             *)
C19_AnchorPath ==
    (AnchorSent /\ NoSpace(cur.body.name) /\ NoSpace(cur.body.table))
        => (calls[1].op = "set" /\ Len(calls[1].path) = 5
            /\ calls[1].path = AnchorTemplate)

(* the anchor set of the VRF MGMT with table 100 *)
C19_Witness ==
    /\ AnchorSent
    /\ cur.body.name = S("MGMT")
    /\ cur.body.table = S("100")
    /\ calls[1].path = <<S("vrf"), S("name"), S("MGMT"), S("table"), S("100")>>

----------------------------------------------------------------------------
(* the CreateVRF in hand carries a description with whitespace and has sent *)
(* the set of its description                                               *)
SpacedDescriptionSent ==
    /\ cur.h = "CreateVRF"
    /\ ~NoSpace(cur.body.description)
    /\ Len(calls) >= 2

(* the segments up to and including the field keyword *)
DescriptionPrefix == <<S("vrf"), S("name")>> \o Fields(cur.body.name) \o <<S("description")>>

(* a CreateVRF whose description holds whitespace is not refused: once its  *)
(* anchor set is accepted the description set is sent and the answer is 201 *)
SpacedDescriptionAccepted ==
    (cur.h = "CreateVRF" /\ ~NoSpace(cur.body.description) /\ resp.status # 0
     /\ Len(calls) >= 1 /\ calls[1].res = "ok")
        => (Len(calls) = 2 /\ resp.status = StatusCreated)

(* the first whitespace-delimited token of a value, none when it has none *)
FirstToken(str) == IF Fields(str) = << >> THEN << >> ELSE <<Fields(str)[1]>>

(* C20 as stated: when a free-text value such as a description contains     *)
(* whitespace, no error is raised and the path sent carries only the first  *)
(* whitespace-delimited token of the value after the field keyword.         *)
C20_Original ==
    /\ SpacedDescriptionAccepted
    /\ SpacedDescriptionSent
          => calls[2].path = DescriptionPrefix \o FirstToken(cur.body.description)

(* C20 amended: when a free-text value such as a description contains       *)
(* whitespace, no error is raised and the path sent carries every           *)
(* whitespace-delimited token of the value, each as a segment of its own,   *)
(* after the field keyword.                                                 *)
C20_EveryTokenSent ==
    /\ SpacedDescriptionAccepted
    /\ SpacedDescriptionSent
          => calls[2].path = DescriptionPrefix \o Fields(cur.body.description)

(* the description "core vrf" of the VRF MGMT is sent as the two segments   *)
(* core and vrf and the request is answered 201                             *)
C20_Witness ==
    /\ SpacedDescriptionSent
    /\ cur.body.name = S("MGMT")
    /\ calls[2].path = <<S("vrf"), S("name"), S("MGMT"), S("description"), S("core"), S("vrf")>>
    /\ resp.status = StatusCreated

----------------------------------------------------------------------------
(* a path of at least one segment, none of them empty or holding whitespace *)
WellFormed(path) ==
    /\ Len(path) >= 1
    /\ \A j \in 1..Len(path) : path[j] # << >> /\ NoSpace(path[j])

(* C21: every path sent to the remote store by any handler is a non-empty   *)
(* sequence of segments and no segment is the empty string, for every value *)
(* of the request fields and path parameters, empty and whitespace-only     *)
(* ones included.                                                           *)
C21_PathsWellFormed == \A i \in 1..Len(calls) : WellFormed(calls[i].path)

(* a CreateVRF whose description is a single space: the description set is  *)
(* sent with the path ending in the field keyword                           *)
C21_Witness ==
    /\ cur.h = "CreateVRF"
    /\ cur.body.description = <<SP>>
    /\ Len(calls) = 2
    /\ calls[2].path = <<S("vrf"), S("name"), S("MGMT"), S("description")>>

(* a GetVRF whose path parameter is a single space *)
C21_WitnessParameter ==
    /\ cur.h = "GetVRF"
    /\ cur.vars.vrf = <<SP>>
    /\ Len(calls) = 1
    /\ calls[1].path = <<S("vrf"), S("name")>>

----------------------------------------------------------------------------
(* the field keywords of a NAT rule in the order of the claim *)
NATOrder ==
    <<<<S("translation"), S("address")>>, <<S("translation"), S("port")>>,
      <<S("description")>>, <<S("protocol")>>,
      <<S("outbound-interface"), S("name")>>, <<S("inbound-interface"), S("name")>>,
      <<S("source"), S("address")>>, <<S("source"), S("port")>>,
      <<S("destination"), S("address")>>, <<S("destination"), S("port")>>>>

(* the place in NATOrder of the field a call of CreateNATRule sets: the     *)
(* segments between nat <type> rule <id> and the value; 0 when it is none   *)
NATPlace(c) ==
    LET kw == SubSeq(c.path, 5, Len(c.path) - 1)
        hit == {i \in 1..Len(NATOrder) : NATOrder[i] = kw}
    IN IF hit = {} THEN 0 ELSE CHOOSE i \in hit : TRUE

(* the calls of the request in hand that set a member of the address list *)
AddressSets == SelectSeq(calls, IsAddressSet)

(* the calls of the request in hand follow the order of the template *)
InTemplateOrder ==
    /\ cur.h = "CreateNATRule"
          => /\ \A i \in 1..Len(calls) : calls[i].op = "set" /\ NATPlace(calls[i]) > 0
             /\ \A i, j \in 1..Len(calls) :
                    i < j => NATPlace(calls[i]) < NATPlace(calls[j])
             /\ Len(calls) >= 1 => NATPlace(calls[1]) = 1
    /\ (cur.h = "UpdateAddressGroup" /\ Len(calls) >= 1)
          => /\ calls[1].op = "delete"
             /\ \A i \in 2..Len(calls) : calls[i].op = "set"
             /\ Len(AddressSets) <= GoLen(cur.body.addresses)
             /\ \A i \in 1..Len(AddressSets) :
                    /\ calls[i + 1] = AddressSets[i]
                    /\ AddressSets[i].path[Len(AddressSets[i].path)]
                           = cur.body.addresses.elems[i]

(* a step issues at most one call, after every earlier call of the request  *)
(* has returned and while no response is written                            *)
OneCallAtATime ==
    \/ calls' = calls
    \/ calls' = << >>
    \/ /\ Len(calls') = Len(calls) + 1
       /\ SubSeq(calls', 1, Len(calls)) = calls
       /\ resp.status = 0
       /\ pc = Len(calls) /\ pc' = Len(calls')

(* C22: within one request the remote calls are issued strictly one after   *)
(* another and in the fixed order of the resource's template: CreateNATRule *)
(* sets translation address, translation port, description, protocol,       *)
(* outbound-interface, inbound-interface, source address, source port,      *)
(* destination address, destination port; UpdateAddressGroup issues the     *)
(* delete before every set and the sets in the order of the request's       *)
(* addresses.                                                               *)
C22_SequentialInOrder == []InTemplateOrder /\ [][OneCallAtATime]_vars

(* UpdateAddressGroup has deleted the list and set two different addresses  *)
(* in the order of the request                                              *)
C22_Witness ==
    /\ cur.h = "UpdateAddressGroup"
    /\ cur.body.addresses = Slice(<<Addr2, Addr1>>)
    /\ Len(calls) >= 3
    /\ calls[1].op = "delete"
    /\ calls[2].path[6] = Addr2
    /\ calls[3].path[6] = Addr1

(* CreateNATRule has set the translation address and two optional fields *)
C22_WitnessNAT ==
    /\ cur.h = "CreateNATRule"
    /\ Len(calls) = 3
    /\ NATPlace(calls[2]) = 7
    /\ NATPlace(calls[3]) = 8

----------------------------------------------------------------------------
(* a path of the part of the store the model follows *)
Followed(path) == IsMemberPath(path) \/ IsFlagPath(path) \/ IsVRFLeaf(path)

(* no call of the request in hand deletes what an earlier call of the same  *)
(* request has set                                                          *)
NoUndo ==
    \A i, j \in 1..Len(calls) :
        (i < j /\ calls[i].op = "set" /\ calls[i].res = "ok")
            => ~(calls[j].op = "delete" /\ IsPrefix(calls[j].path, calls[i].path))

(* the store holds what every accepted set of the request in hand wrote *)
EffectsKept ==
    \A i \in 1..Len(calls) :
        (calls[i].op = "set" /\ calls[i].res = "ok" /\ Followed(calls[i].path))
            => calls[i].path \in store

(* the store changes only with a call the device accepted: a failed step    *)
(* leaves nothing behind                                                    *)
OnlyAcceptedCallsWrite ==
    store' # store
        => /\ Len(calls') = Len(calls) + 1
           /\ calls'[Len(calls')].res = "ok"
           /\ calls'[Len(calls')].op \in {"set", "delete"}

(* the Get in hand was answered 200 out of the store *)
GetFromStore(h) ==
    /\ cur.h = h
    /\ resp.status = StatusOK
    /\ Len(calls) = 1
    /\ last = StoredWire(store, calls[1].path)

(* the value the store holds for a leaf of the VRF, empty when it holds none *)
StoredLeaf(vrf, key) ==
    LET leaves == {q \in store : IsVRFLeaf(q) /\ q[3] = vrf /\ q[4] = S(key)}
    IN IF leaves = {} THEN << >> ELSE (CHOOSE q \in leaves : TRUE)[5]

(* the string field of a representation, empty when the field is left out *)
Shown(x, field) == IF field \in DOMAIN x.o THEN x.o[field].s ELSE << >>

(* a Get answered out of the store shows exactly what the store holds *)
GetShowsStore ==
    /\ GetFromStore("GetVRF")
          => /\ Shown(resp.body, "table") = StoredLeaf(cur.vars.vrf, "table")
             /\ Shown(resp.body, "description") = StoredLeaf(cur.vars.vrf, "description")
    /\ GetFromStore("GetAddressGroup")
          => {resp.body.o["addresses"].a[i].s :
                 i \in 1..Len(resp.body.o["addresses"].a)} = Members(store, cur.vars.group)

(* C23: no handler ever issues a remote call to undo a step it completed:   *)
(* after the anchor succeeded and a later step failed, the store keeps      *)
(* exactly the effects of the steps that succeeded, and a Get issued        *)
(* afterwards returns exactly that partial state.                           *)
C23_NoRollback ==
    [](NoUndo /\ EffectsKept /\ GetShowsStore) /\ [][OnlyAcceptedCallsWrite]_vars

(* CreateAddressGroup set its first address, the set of the second failed   *)
(* and ended the request: the store holds the first and no call followed    *)
C23_Witness ==
    /\ cur.h = "CreateAddressGroup"
    /\ cur.body.addresses = Slice(<<Addr1, Addr2>>)
    /\ Len(calls) = 2
    /\ calls[1].res = "ok" /\ calls[2].res # "ok"
    /\ resp.status \in {StatusBadGateway, StatusUnprocessableEntity}
    /\ Members(store, cur.body.name) = {Addr1}

(* a GetAddressGroup answered out of a store that holds one member *)
C23_WitnessGet ==
    /\ GetFromStore("GetAddressGroup")
    /\ Members(store, cur.vars.group) = {Addr1}
    /\ resp.body.o["addresses"] = JArr(<<JStr(Addr1)>>)

----------------------------------------------------------------------------
(* the Update operations that answer with the state read back from the      *)
(* device                                                                   *)
ReadBackOps == {"UpdateVRF", "UpdatePolicy", "UpdateNATRule", "UpdateRoute",
                "UpdateDHCPServer"}

(* C24: a 200 response that carries a resource representation is produced   *)
(* only from a remote get whose logical flag was true: when the read-back   *)
(* get at the end of UpdateVRF, UpdatePolicy, UpdateNATRule, UpdateRoute or  *)
(* UpdateDHCPServer is logically false, the handler does not answer 200     *)
(* with empty fields.                                                       *)
C24_ReadBackChecked ==
    (cur.h \in GetOps \cup ReadBackOps /\ resp.status = StatusOK)
        => /\ Len(calls) >= 1
           /\ calls[Len(calls)].op = "get"
           /\ calls[Len(calls)].res = "ok"

(* UpdateVRF set the table, the device rejected the read-back get, and the  *)
(* answer is 200 with an empty table                                        *)
C24_Witness ==
    /\ cur.h = "UpdateVRF"
    /\ cur.body.table = S("100")
    /\ Len(calls) = 2
    /\ calls[1].res = "ok"
    /\ calls[2].op = "get" /\ calls[2].res = "rejected"
    /\ resp.status = StatusOK
    /\ resp.body = VRFInfo(cur.vars.vrf, << >>, << >>)

----------------------------------------------------------------------------
(* the client has made a call and the device has sent an HTTP answer *)
Answered == fn \in {"Get", "Set", "Delete"} /\ last.net = "ok"

(* the two classes of a failed call *)
TransportError == ret.err # NoErr
LogicalRejection == ret.err = NoErr /\ ~ret.out.Success

(* C25 as stated: in the client a response with a non-2xx HTTP status is    *)
(* always reported as a transport error, whatever success flag its body     *)
(* carries, and a response with a 2xx status and success:false is always    *)
(* reported as a logical rejection; the two classes never coincide.         *)
C25_Original ==
    Answered
        => /\ last.status \notin 200..299 => TransportError
           /\ (last.status \in 200..299 /\ last.json /\ ~last.success) => LogicalRejection
           /\ ~(TransportError /\ LogicalRejection)

(* C25 amended: a response with an HTTP status other than 200 is always     *)
(* reported as a transport error, whatever success flag its body carries,   *)
(* and a response with status 200 and success:false is always reported as   *)
(* a logical rejection; the two classes never coincide.                     *)
C25_StatusClasses ==
    Answered
        => /\ last.status # 200 => TransportError
           /\ (last.status = 200 /\ last.json /\ ~last.success) => LogicalRejection
           /\ ~(TransportError /\ LogicalRejection)

(* a 500 answer whose body says success:true is a transport error *)
C25_Witness ==
    /\ Answered
    /\ last.status = 500 /\ last.json /\ last.success
    /\ ret.err = httpStatusError(500)

(* a 201 answer whose body says success:false is a transport error *)
C25_Witness201 ==
    /\ Answered
    /\ last.status = 201 /\ last.json /\ ~last.success
    /\ TransportError

----------------------------------------------------------------------------
(* every call issued since the context was done, the one in flight          *)
(* included, ended with an error                                            *)
CancelledCallsFail ==
    \A i \in (ctx.at + 1)..Len(calls) : calls[i].res = "transport"

(* C26: when the inbound request is cancelled while a compound operation is *)
(* running, the in-flight remote call is cancelled, no later step of the    *)
(* operation is applied to the remote store, and no call is issued to undo  *)
(* the steps already completed.                                             *)
C26_CancelStops ==
    [](ctx.done => (CancelledCallsFail /\ NoUndo)) /\ [][ctx.done => store' = store]_vars

(* CreateNATRule was cancelled after its anchor set was accepted: its two   *)
(* optional sets were issued and failed, and the answer is 201              *)
C26_Witness ==
    /\ cur.h = "CreateNATRule"
    /\ ctx.done /\ ctx.at = 1
    /\ Len(calls) = 3
    /\ calls[1].res = "ok"
    /\ calls[2].res = "transport" /\ calls[3].res = "transport"
    /\ last.net = "canceled"
    /\ resp.status = StatusCreated

(* C27: every remote call issued by a handler is bounded by a per-call      *)
(* timeout, so every request eventually completes with a response even      *)
(* when the remote store never answers.                                     *)
C27_RequestCompletes == (cur.h # "idle") ~> (resp.status # 0)

(* CreateVRF waits for the answer to its description set, the context of    *)
(* the request is live and no response is written                           *)
C27_Witness ==
    /\ cur.h = "CreateVRF"
    /\ Len(calls) = 1
    /\ calls[1].res = "ok"
    /\ ctx.silent /\ ~ctx.done
    /\ resp.status = 0

(* the most remote calls the size of the request allows *)
CallBound(req) ==
    CASE req.h = "CreateVRF" -> 2
      [] req.h = "UpdateAddressGroup" -> 2 + GoLen(req.body.addresses)
      [] OTHER -> Len(PlanOf(req, NoEnvelope, "fwd").steps)

(* the i-th call of the request is the i-th step of the operation *)
IssuedOnce ==
    /\ Len(calls) <= Len(Template)
    /\ \A i \in 1..Len(calls) :
          /\ calls[i].op = Template[i].op
          /\ calls[i].path = pathToArr(Template[i].path)

(* a failure the handler examines is the failure of the request's last     *)
(* call and is answered with an error                                      *)
ErrorEndsRequest ==
    \A i \in 1..Len(calls) :
        (Template[i].mode = "fatal" /\ calls[i].res # "ok")
        => /\ i = Len(calls)
           /\ resp.status = (IF calls[i].res = "transport" THEN StatusBadGateway
                              ELSE StatusUnprocessableEntity)

(* once the response is written no further call is issued *)
NoCallAfterResponse == resp.status # 0 => Len(calls') <= Len(calls)

(* C28: no remote call is retried: within one request the i-th call is the *)
(* i-th step of the operation and no step is issued again, a failure the   *)
(* handler classifies (502 or 422) is the failure of the last call of the  *)
(* request, the number of calls is at most 2 for CreateVRF and at most 2   *)
(* plus the number of addresses for UpdateAddressGroup, and when the       *)
(* device answers every call every request gets its response.              *)
C28_NoRetry ==
    /\ [](cur.h # "idle" => (IssuedOnce /\ ErrorEndsRequest /\ Len(calls) <= CallBound(cur)))
    /\ [][NoCallAfterResponse]_vars
    /\ ((cur.h # "idle") ~> (resp.status # 0 /\ Len(calls) <= CallBound(cur)))

(* UpdateAddressGroup with two addresses and a description has issued its  *)
(* four calls, the delete having failed, and answers 200                   *)
C28_Witness ==
    /\ cur.h = "UpdateAddressGroup"
    /\ GoLen(cur.body.addresses) = 2
    /\ cur.body.description # << >>
    /\ Len(calls) = 4
    /\ calls[1].res = "transport"
    /\ resp.status = StatusOK

(* CreateVRF whose anchor set the device rejected: one call, answer 422 *)
C28_WitnessError ==
    /\ cur.h = "CreateVRF"
    /\ cur.body.description # << >>
    /\ Len(calls) = 1
    /\ calls[1].res = "rejected"
    /\ resp.status = StatusUnprocessableEntity

----------------------------------------------------------------------------
(* CreateVRF without description has answered 201 *)
CreatedBare ==
    /\ cur.h = "CreateVRF"
    /\ cur.body.description = << >>
    /\ resp.status = StatusCreated

(* the store holds the table of the VRF and no description of it *)
HoldsBare(vrf, table) ==
    /\ StoredLeaf(vrf, "table") = table
    /\ table # << >>
    /\ StoredLeaf(vrf, "description") = << >>

(* a GetVRF answered out of a store that holds the table of the VRF and no *)
(* description shows the name asked for, that table and no description     *)
GetShowsCreated ==
    (GetFromStore("GetVRF")
        /\ HoldsBare(cur.vars.vrf, StoredLeaf(cur.vars.vrf, "table")))
    => /\ resp.body = VRFInfo(cur.vars.vrf, StoredLeaf(cur.vars.vrf, "table"), << >>)
       /\ DOMAIN resp.body.o = {"name", "table"}

(* what GetVRF(name) of device dev answers out of the store st: the get of *)
(* vrf name <name>, the device's answer, and the handler's reply           *)
GetVRFAfter(st, dev, name) ==
    LET req == Req("GetVRF", dev, [vrf |-> name], << >>, TRUE, NoFields)
        step == PlanOf(req, NoEnvelope, "fwd").steps[1]
        r == ConfCall(StoredWire(st, pathToArr(step.path)))
        verdict == Handle(step.mode, r)
    IN IF verdict.status # Continue.status THEN verdict
       ELSE FinalReply(req, PlanOf(req, r.out, "fwd"), NilSlice)

(* the store has applied the set of the CreateVRF in hand: it holds table  *)
(* <table> of the VRF <name>, and no description of it                     *)
AppliedBare ==
    /\ AnchorTemplate \in store
    /\ HoldsBare(cur.body.name, cur.body.table)

(* C29: round trip for VRFs: when CreateVRF(name, table) without           *)
(* description has answered 201 {name, table} and the store has applied    *)
(* the set, GetVRF(name) answers 200 with the same name and table and the  *)
(* description omitted; and every GetVRF answered out of a store that      *)
(* holds the table and no description of the VRF shows exactly that.       *)
C29_RoundTrip ==
    /\ CreatedBare
        => /\ resp.body = VRFInfo(cur.body.name, cur.body.table, << >>)
           /\ DOMAIN resp.body.o = {"name", "table"}
           /\ calls[1].res = "ok"
    /\ (CreatedBare /\ AppliedBare)
        => /\ GetVRFAfter(store, cur.dev, cur.body.name).status = StatusOK
           /\ GetVRFAfter(store, cur.dev, cur.body.name).body = resp.body
    /\ GetShowsCreated

(* GetVRF(MGMT) answered 200 {MGMT, 100} out of the store that CreateVRF   *)
(* (MGMT, 100) left                                                        *)
C29_Witness ==
    /\ GetFromStore("GetVRF")
    /\ cur.vars.vrf = S("MGMT")
    /\ store = {<<S("vrf"), S("name"), S("MGMT"), S("table"), S("100")>>}
    /\ resp.body = JObj(Field("name", JStr(S("MGMT"))) @@ Field("table", JStr(S("100"))))

(* CreateVRF(MGMT, 100) without description answered 201 and the store     *)
(* holds the table                                                         *)
C29_WitnessCreate ==
    /\ CreatedBare
    /\ cur.body.name = S("MGMT")
    /\ cur.body.table = S("100")
    /\ store = {<<S("vrf"), S("name"), S("MGMT"), S("table"), S("100")>>}

----------------------------------------------------------------------------
(* the endpoints of the README that the request in hand is an instance of *)
ListedFor(req) ==
    {e \in Listed : e.method = req.method /\ MatchPath(e.pattern, req.path)}

(* the NAT rule endpoints of the README *)
IsNATEndpoint(e) == Len(e.pattern) >= 3 /\ e.pattern[3] = "nat"

(* C30: every endpoint the README lists is registered in the router with   *)
(* its method and dispatches to its handler: a request that is an instance *)
(* of a listed endpoint is handed to that endpoint's handler and never to  *)
(* the router's not-found handler.                                         *)
C30_ListedRegistered ==
    fn = "ServeHTTP"
    => \A e \in ListedFor(arg) : ret = e.handler /\ ret # NotFound

(* every listed endpoint other than the NAT rule endpoints is handed to    *)
(* its handler                                                             *)
ListedDispatched ==
    fn = "ServeHTTP"
    => \A e \in ListedFor(arg) : ~IsNATEndpoint(e) => ret = e.handler

(* the listing of the source NAT rules, GET /devices/x/nat/source/rules,   *)
(* is answered by the not-found handler                                    *)
C30_Witness ==
    /\ fn = "ServeHTTP"
    /\ arg = [method |-> "GET", path |-> <<"devices", "x", "nat", "source", "rules">>]
    /\ Route("GET", NATRules, "ListNATRules") \in ListedFor(arg)
    /\ ret = NotFound

----------------------------------------------------------------------------
(* the Update operations that the README describes as partial *)
PartialOps == {"UpdateVRF", "UpdatePolicy", "UpdateNATRule", "UpdateRoute"}

(* a field of an update request: its value, the path of the resource's     *)
(* node it lives under and its keyword                                     *)
UpdateField(name, value, base, key) ==
    [name |-> name, value |-> value, base |-> base, key |-> key]

(* the fields of the request bodies of the partial updates *)
UpdateFields(req) ==
    LET b == req.body
    IN CASE req.h = "UpdateVRF" ->
              LET base == <<S("vrf"), S("name")>> \o Fields(req.vars.vrf)
              IN {UpdateField("table", b.table, base, <<S("table")>>),
                  UpdateField("description", b.description, base, <<S("description")>>)}
         [] req.h = "UpdatePolicy" ->
              LET base == <<S("firewall"), S("ipv4"), S("name")>> \o Fields(req.vars.policy)
              IN {UpdateField("default_action", b.default_action, base, <<S("default-action")>>),
                  UpdateField("description", b.description, base, <<S("description")>>)}
         [] req.h = "UpdateRoute" ->
              LET base == <<S("protocols"), S("static"), S("route")>>
                          \o Fields(req.vars.prefix \o <<"/">> \o req.vars.mask)
              IN {UpdateField("next_hop", b.next_hop, base, <<S("next-hop")>>),
                  UpdateField("distance", b.distance,
                              base \o <<S("next-hop")>> \o Fields(b.next_hop),
                              <<S("distance")>>),
                  UpdateField("description", b.description, base, <<S("description")>>)}
         [] req.h = "UpdateNATRule" ->
              LET base == <<S("nat")>> \o Fields(req.vars.nat_type)
                          \o <<S("rule")>> \o Fields(req.vars.rule_id)
              IN {UpdateField("translation_address", b.translation_address, base,
                              <<S("translation"), S("address")>>),
                  UpdateField("translation_port", b.translation_port, base,
                              <<S("translation"), S("port")>>),
                  UpdateField("description", b.description, base, <<S("description")>>),
                  UpdateField("protocol", b.protocol, base, <<S("protocol")>>),
                  UpdateField("outbound_interface", b.outbound_interface, base,
                              <<S("outbound-interface"), S("name")>>),
                  UpdateField("inbound_interface", b.inbound_interface, base,
                              <<S("inbound-interface"), S("name")>>),
                  UpdateField("source_address", b.source_address, base,
                              <<S("source"), S("address")>>),
                  UpdateField("source_port", b.source_port, base, <<S("source"), S("port")>>),
                  UpdateField("destination_address", b.destination_address, base,
                              <<S("destination"), S("address")>>),
                  UpdateField("destination_port", b.destination_port, base,
                              <<S("destination"), S("port")>>)}
         [] OTHER -> {}

(* a set of the field's path with the field's value was issued *)
SetIssued(f) ==
    \E i \in 1..Len(calls) :
        calls[i].op = "set" /\ calls[i].path = f.base \o f.key \o Fields(f.value)

(* a set or a delete at or under the field's path was issued *)
Touched(f) ==
    \E i \in 1..Len(calls) :
        calls[i].op \in {"set", "delete"} /\ IsPrefix(f.base \o f.key, calls[i].path)

(* a partial update that went through every step and answered 200 *)
UpdatedPartially == cur.h \in PartialOps /\ cur.bodyOK /\ resp.status = StatusOK

(* C31: in UpdateVRF, UpdatePolicy, UpdateNATRule and UpdateRoute a set is  *)
(* issued for a field if and only if the field is non-empty in the request: *)
(* the path of an omitted field is never set or deleted, and every          *)
(* non-empty field of a request that answered 200 was set at its path.      *)
C31_PartialUpdate ==
    /\ cur.h \in PartialOps
          => \A f \in UpdateFields(cur) : f.value = << >> => ~Touched(f)
    /\ UpdatedPartially
          => \A f \in UpdateFields(cur) : f.value # << >> => SetIssued(f)

(* the same for every field but the distance of UpdateRoute *)
PartialButDistance ==
    /\ cur.h \in PartialOps
          => \A f \in UpdateFields(cur) : f.value = << >> => ~Touched(f)
    /\ UpdatedPartially
          => \A f \in UpdateFields(cur) :
                (f.value # << >> /\ ~(cur.h = "UpdateRoute" /\ f.name = "distance"))
                => SetIssued(f)

(* UpdateRoute with a distance and without next_hop answered 200 after the *)
(* read-back alone: the distance was not set                               *)
C31_Witness ==
    /\ cur.h = "UpdateRoute"
    /\ cur.body.distance = S("10")
    /\ cur.body.next_hop = << >>
    /\ cur.body.description = << >>
    /\ resp.status = StatusOK
    /\ Len(calls) = 1
    /\ calls[1].op = "get"

(* UpdateNATRule with two optional fields answered 200: both were set *)
PartialNATUpdated ==
    /\ cur.h = "UpdateNATRule"
    /\ resp.status = StatusOK
    /\ Cardinality({f \in UpdateFields(cur) : f.value # << >>}) = 2
    /\ \A f \in UpdateFields(cur) : f.value # << >> => SetIssued(f)

----------------------------------------------------------------------------
(* the path of the rule of the AddRule in hand *)
RuleBase == pathToArr(Sprintf(RulePath, <<cur.vars.policy, cur.body.rule_id>>))

(* the calls that set the address match, and the address-group match, of   *)
(* one direction of the rule                                               *)
AddressMatchSets(dir) ==
    {i \in 1..Len(calls) :
        calls[i].op = "set" /\ IsPrefix(RuleBase \o <<S(dir), S("address")>>, calls[i].path)}

GroupMatchSets(dir) ==
    {i \in 1..Len(calls) :
        calls[i].op = "set"
        /\ IsPrefix(RuleBase \o <<S(dir), S("group"), S("address-group")>>, calls[i].path)}

(* the request gives both the address and the address group of a direction *)
BothGiven(dir) ==
    IF dir = "source" THEN cur.body.source # << >> /\ cur.body.source_group # << >>
    ELSE cur.body.destination # << >> /\ cur.body.destination_group # << >>

(* C32: AddRule never sets both an address match and an address-group      *)
(* match for the same direction of one rule: when both source and          *)
(* source_group (or both destination and destination_group) are given, a   *)
(* request that answered 201 has set exactly one of the two paths.         *)
C32_OneMatchPerDirection ==
    cur.h = "AddRule"
    => \A dir \in {"source", "destination"} :
          /\ AddressMatchSets(dir) = {} \/ GroupMatchSets(dir) = {}
          /\ (BothGiven(dir) /\ resp.status = StatusCreated)
                => Cardinality(AddressMatchSets(dir) \cup GroupMatchSets(dir)) = 1

(* AddRule with source and source_group, destination and destination_group *)
(* answered 201 after the action set and the two address sets              *)
C32_Witness ==
    /\ cur.h = "AddRule"
    /\ BothGiven("source") /\ BothGiven("destination")
    /\ resp.status = StatusCreated
    /\ Cardinality(AddressMatchSets("source")) = 1 /\ GroupMatchSets("source") = {}
    /\ Cardinality(AddressMatchSets("destination")) = 1 /\ GroupMatchSets("destination") = {}

----------------------------------------------------------------------------
(* the List operations that answer from one get *)
SingleGetLists == ListOps \ {"ListPolicies"}

(* the key under which the device may wrap the collection of a List *)
WrapperKey(h) ==
    CASE h = "ListVRFs" -> "name"
      [] h = "ListPolicies" -> "name"
      [] h = "ListAddressGroups" -> "address-group"
      [] h = "ListNATRules" -> "rule"
      [] h = "ListRoutes" -> "route"
      [] h = "ListDHCPServers" -> "shared-network-name"
      [] OTHER -> ""

(* the keys of the resources in the data a List fetched: the child keys of *)
(* the collection, for the interfaces the type and name of each interface, *)
(* for the VLANs the type, the name and the vif of each subinterface       *)
ResourceKeys(h, data) ==
    LET m == AsMap(data)
    IN CASE h = "ListNetworks" ->
              {<<t, n>> : t \in DOMAIN m, n \in UNION {DOMAIN AsMap(m[u]) : u \in DOMAIN m}}
              \cap {k \in (DOMAIN m) \X UNION {DOMAIN AsMap(m[u]) : u \in DOMAIN m} :
                       k[2] \in DOMAIN AsMap(m[k[1]])}
         [] h = "ListVLANs" ->
              UNION {UNION {{<<t, n, v>> :
                               v \in DOMAIN AsMap(Index(AsMap(AsMap(m[t])[n]), "vif"))} :
                            n \in DOMAIN AsMap(m[t])} : t \in DOMAIN m}
         [] OTHER -> {<<k>> : k \in DOMAIN Unwrap(m, WrapperKey(h))}

(* the resource keys that the List presents: ListNATRules and ListVLANs     *)
(* pass over a rule or vif key that is not an integer                       *)
PresentedKeys(h, data) ==
    {k \in ResourceKeys(h, data) :
        (h \in {"ListNATRules", "ListVLANs"}) => AtoiOK(S(k[Len(k)]))}

(* the get of the collection succeeded with a true logical flag *)
Fetched == ConfCall(last).err = NoErr /\ ConfCall(last).out.Success

(* the number of representations of the response *)
Returned == IF resp.body.j = "array" THEN Len(resp.body.a) ELSE 0

(* a List answered 200 *)
Listed200 == cur.h \in ListOps /\ resp.status = StatusOK

(* the first get of ListPolicies is through, no base chain is asked yet *)
NamedFetched == cur.h = "ListPolicies" /\ Len(calls) = 1 /\ calls[1].res = "ok"

(* the calls of ListPolicies: the get of the named policies, then one get  *)
(* per base chain                                                          *)
ChainGets ==
    /\ Len(calls) <= 1 + Len(baseChainPaths)
    /\ \A i \in 1..Len(calls) :
          /\ calls[i].op = "get"
          /\ i > 1 => calls[i].path = pathToArr(baseChainPaths[i - 1].path)

(* a base-chain get adds at most one representation, and none when it failed *)
ChainAddsOne ==
    (cur.h = "ListPolicies" /\ Len(calls) >= 1 /\ Len(calls') = Len(calls) + 1)
    => /\ GoLen(acc') \in {GoLen(acc), GoLen(acc) + 1}
       /\ calls'[Len(calls')].res # "ok" => acc' = acc

(* C33 as stated: each List operation fetches its parent sub-tree with      *)
(* exactly one remote get, issues no remote call per item, and returns      *)
(* exactly one resource representation per child key of the fetched         *)
(* collection.                                                              *)
C33_Original ==
    /\ Listed200
          => /\ Len(calls) = 1
             /\ calls[1].op = "get"
             /\ cur.h \in SingleGetLists
                   => Returned
                        = (IF Fetched THEN Cardinality(ResourceKeys(cur.h, ConfCall(last).out.Data))
                           ELSE 0)
    /\ NamedFetched
          => GoLen(acc) = Cardinality(ResourceKeys(cur.h, ConfCall(last).out.Data))

(* C33 amended: each List operation other than ListPolicies fetches its     *)
(* parent sub-tree with exactly one remote get and issues no call per item; *)
(* ListPolicies issues one get of the named policies and then one get per   *)
(* base chain (forward, input, output), whatever the number of policies.    *)
(* Each returns exactly one representation per child key of the fetched     *)
(* collection, except that ListNATRules and ListVLANs pass over a key that  *)
(* is not an integer and that ListPolicies adds at most one representation  *)
(* per base chain whose get succeeded.                                      *)
C33_OneGetPerList ==
    /\ [](Listed200
            => /\ cur.h \in SingleGetLists
                   => /\ Len(calls) = 1
                      /\ calls[1].op = "get"
                      /\ Returned
                           = (IF Fetched
                              THEN Cardinality(PresentedKeys(cur.h, ConfCall(last).out.Data))
                              ELSE 0)
               /\ cur.h = "ListPolicies"
                   => Len(calls) = 1 + Len(baseChainPaths))
    /\ [](cur.h = "ListPolicies" => ChainGets)
    /\ [](NamedFetched
            => GoLen(acc) = Cardinality(ResourceKeys(cur.h, ConfCall(last).out.Data)))
    /\ [][ChainAddsOne]_vars

(* ListNATRules answered 200 with two rules from one get of a collection   *)
(* that holds the keys 10, 20 and x                                        *)
C33_Witness ==
    /\ cur.h = "ListNATRules"
    /\ resp.status = StatusOK
    /\ Len(calls) = 1
    /\ Fetched
    /\ Cardinality(ResourceKeys(cur.h, ConfCall(last).out.Data)) = 3
    /\ Returned = 2

(* ListPolicies answered 200 after its four gets with the two named         *)
(* policies and one base chain                                              *)
C33_WitnessPolicies ==
    /\ cur.h = "ListPolicies"
    /\ resp.status = StatusOK
    /\ Len(calls) = 4
    /\ Returned = 3

----------------------------------------------------------------------------
(* the path of the group of the CreateAddressGroup in hand *)
NewGroupBase == GroupRoot \o Fields(cur.body.name)

(* the sets that come before the description: one per address, or the one  *)
(* of the bare group path when the request has no address                  *)
AnchorSets ==
    IF GoLen(cur.body.addresses) = 0 THEN <<NewGroupBase>>
    ELSE [i \in 1..GoLen(cur.body.addresses) |->
             NewGroupBase \o <<S("address")>> \o Fields(cur.body.addresses.elems[i])]

(* the calls issued so far are the anchor sets in request order, every one *)
(* but the latest accepted                                                 *)
AnchorsInOrder ==
    \A i \in 1..Len(calls) :
        i <= Len(AnchorSets)
        => /\ calls[i].op = "set"
           /\ calls[i].path = AnchorSets[i]
           /\ i < Len(calls) => calls[i].res = "ok"

(* a failing anchor set is the last call, is answered 502 or 422, and the  *)
(* members set before it are on the device                                 *)
StopsAtFirstFailure ==
    \A i \in 1..Len(calls) :
        (i <= Len(AnchorSets) /\ calls[i].res # "ok")
        => /\ i = Len(calls)
           /\ resp.status = (IF calls[i].res = "transport" THEN StatusBadGateway
                              ELSE StatusUnprocessableEntity)
           /\ \A j \in 1..(i - 1) :
                 cur.body.addresses.elems[j] \in Members(store, cur.body.name)

(* the description set is the one call after the anchor sets, and only a   *)
(* request with a description issues it                                    *)
DescriptionLast ==
    /\ Len(calls) <= Len(AnchorSets) + (IF cur.body.description # << >> THEN 1 ELSE 0)
    /\ Len(calls) > Len(AnchorSets)
          => /\ calls[Len(calls)].op = "set"
             /\ calls[Len(calls)].path = NewGroupBase \o <<S("description")>>
                                           \o Fields(cur.body.description)
             /\ \A i \in 1..Len(AnchorSets) : calls[i].res = "ok"
    /\ resp.status = StatusCreated
          => Len(calls) = Len(AnchorSets) + (IF cur.body.description # << >> THEN 1 ELSE 0)

(* C34: CreateAddressGroup with N >= 1 addresses issues its N member sets   *)
(* in request order and stops at the first failing one, leaving the earlier *)
(* members on the device and answering 502 or 422; with no address it       *)
(* issues exactly one set of the bare group path; in both cases the         *)
(* description set, when present, comes last and only after every set       *)
(* before it succeeded.                                                     *)
C34_MembersThenDescription ==
    (cur.h = "CreateAddressGroup" /\ Len(calls) >= 1)
    => (AnchorsInOrder /\ StopsAtFirstFailure /\ DescriptionLast)

(* two addresses and a description: the second member set was rejected,    *)
(* the first member is on the device, the description was not sent, 422    *)
C34_Witness ==
    /\ cur.h = "CreateAddressGroup"
    /\ cur.body.addresses = Slice(<<Addr1, Addr2>>)
    /\ cur.body.description # << >>
    /\ Len(calls) = 2
    /\ calls[1].res = "ok" /\ calls[2].res = "rejected"
    /\ Addr1 \in Members(store, cur.body.name)
    /\ Addr2 \notin Members(store, cur.body.name)
    /\ resp.status = StatusUnprocessableEntity

(* no address and a description: the bare group set, then the description, *)
(* 201                                                                     *)
C34_WitnessEmpty ==
    /\ cur.h = "CreateAddressGroup"
    /\ GoLen(cur.body.addresses) = 0
    /\ Len(calls) = 2
    /\ calls[1].path = NewGroupBase
    /\ resp.status = StatusCreated

----------------------------------------------------------------------------
(* GET /devices.  The handler holds the registry it was constructed with;   *)
(* ListDevices ranges over it, in the order the map range yields, and       *)
(* probes each device with one get of "system host-name".                   *)

MaxDevices == 3

Device(i) == [ID |-> <<"router", i>>, URL |-> <<"https://", "router", i>>]

(* the registries handlers.New is given *)
Registries == SUBSET {Device(i) : i \in 1..MaxDevices}

(* what a device may answer to the probe; "canceled" is the context of the *)
(* probe ending, by its five seconds or by the inbound request             *)
ProbeAnswers == FailKinds \cup {"ok", "canceled"}

(* probe with the logical flag ignored *)
probe_Reachable(r) == r.err = NoErr

(* probe: false on an error of the get, else the logical flag of the answer *)
probe(r) == IF r.err # NoErr THEN FALSE ELSE r.out.Success

DeviceInfo(d, healthy) ==
    JObj(Field("id", JStr(d.ID)) @@ Field("url", JStr(d.URL))
         @@ Field("healthy", JBool(healthy)))

(* the devices the range has visited so far *)
Visited == {d \in arg : \E i \in 1..GoLen(acc) : acc.elems[i].o["id"] = JStr(d.ID)}

InitDevices ==
    /\ cur = Idle
    /\ pc = 0
    /\ calls = << >>
    /\ last = NoWire
    /\ acc = NilSlice
    /\ resp = NoResp
    /\ store = {}
    /\ ctx = Live
    /\ fn = "none"
    /\ arg \in Registries
    /\ ret = NilSlice

(* ListDevices is entered: result := make([]DeviceInfo, 0, len(h.devices)); *)
(* with an empty registry the loop has no iteration and the slice is        *)
(* written as it is                                                         *)
BeginListDevices ==
    /\ cur.h = "idle"
    /\ cur' = Req("ListDevices", "r1", NoVars, << >>, TRUE, NoFields)
    /\ acc' = Slice(<< >>)
    /\ resp' = IF arg = {} THEN Reply(StatusOK, JSlice(Slice(<< >>))) ELSE NoResp
    /\ UNCHANGED <<pc, calls, last, store, ctx, fnvars>>

(* one iteration of the range: the probe of a device not yet visited, its  *)
(* entry appended; after the last device the slice is written with 200     *)
ProbeDevice ==
    /\ cur.h = "ListDevices"
    /\ resp.status = 0
    /\ \E d \in arg \ Visited :
       \E a \in ProbeAnswers :
          LET w == WireOf(a, TStr(d.ID))
              r == ConfCall(w)
              result == Slice(Append(acc.elems, DeviceInfo(d, probe(r))))
          IN /\ calls' = Append(calls, [op |-> "get",
                                        path |-> pathToArr(Words(<<"system", "host-name">>)),
                                        res |-> Class(r)])
             /\ last' = w
             /\ pc' = pc + 1
             /\ acc' = result
             /\ resp' = IF GoLen(result) = Cardinality(arg)
                        THEN Reply(StatusOK, JSlice(result)) ELSE NoResp
    /\ UNCHANGED <<cur, store, ctx, fnvars>>

NextDevices == BeginListDevices \/ ProbeDevice \/ Return

SpecDevices == InitDevices /\ [][NextDevices]_vars

(* the ids of the entries of the response *)
EntryIDs == {resp.body.a[i].o["id"].s : i \in 1..Len(resp.body.a)}

(* every entry's healthy flag is that of the probe made for it *)
HealthyIffProbeOK ==
    \A i \in 1..GoLen(acc) :
        /\ i <= Len(calls)
        /\ acc.elems[i].o["healthy"] = JBool(calls[i].res = "ok")

(* C35: ListDevices always answers 200 with exactly one entry per           *)
(* registered device (an empty array for an empty registry), and an         *)
(* entry's healthy flag is true exactly when the probe get to that device   *)
(* had no transport error and a true logical flag; an unreachable device    *)
(* never makes the request fail.                                            *)
C35_OneEntryPerDevice ==
    cur.h = "ListDevices"
    => /\ HealthyIffProbeOK
       /\ Len(calls) = GoLen(acc)
       /\ resp.status \in {0, StatusOK}
       /\ resp.status = 0 => GoLen(acc) < Cardinality(arg)
       /\ resp.status = StatusOK
             => /\ resp.body.j = "array"
                /\ Len(resp.body.a) = Cardinality(arg)
                /\ EntryIDs = {d.ID : d \in arg}
                /\ resp.body = JSlice(acc)

(* two devices, one unreachable and one healthy, both listed with 200 *)
C35_Witness ==
    /\ cur.h = "ListDevices"
    /\ Cardinality(arg) = 2
    /\ resp.status = StatusOK
    /\ Len(resp.body.a) = 2
    /\ calls[1].res = "transport"
    /\ resp.body.a[1].o["healthy"] = JBool(FALSE)
    /\ calls[2].res = "ok"
    /\ resp.body.a[2].o["healthy"] = JBool(TRUE)

(* an empty registry is answered with an empty array *)
C35_WitnessEmpty ==
    /\ cur.h = "ListDevices"
    /\ arg = {}
    /\ resp = Reply(StatusOK, JArr(<< >>))

----------------------------------------------------------------------------
(* Two requests served at once.  net/http runs every request in a goroutine *)
(* of its own and the handlers take no lock, so the remote calls of two     *)
(* handlers interleave freely; the device applies each call as it arrives.  *)
(* In this specification cur, pc, calls and resp hold one component per     *)
(* goroutine; the store is the one device both talk to.                     *)

Goroutines == {1, 2}

RaceLists == {Slice(<<Addr1>>), Slice(<<Addr2>>), Slice(<<Addr1, Addr2>>), NilSlice}

(* PUT /devices/r1/firewall/address-groups/G with each sampled body *)
RaceRequests ==
    {Req("UpdateAddressGroup", "r1", [group |-> S("G")], << >>, TRUE,
         [name |-> << >>, addresses |-> l, description |-> d]) :
        l \in RaceLists, d \in Opt(S("servers"))}

InitRace ==
    /\ cur = [g \in Goroutines |-> Idle]
    /\ pc = [g \in Goroutines |-> 0]
    /\ calls = [g \in Goroutines |-> << >>]
    /\ last = NoWire
    /\ acc = NilSlice
    /\ resp = [g \in Goroutines |-> NoResp]
    /\ store \in {{}, {GroupRoot \o <<S("G"), S("address"), Addr1>>}}
    /\ ctx = Live
    /\ fn = "none"
    /\ arg = TNull
    /\ ret = NilSlice

(* a goroutine takes a request and decodes its body *)
StartRace ==
    \E g \in Goroutines : \E req \in RaceRequests :
        /\ cur[g].h = "idle"
        /\ cur' = [cur EXCEPT ![g] = req]
        /\ UNCHANGED <<pc, calls, last, acc, resp, store, ctx, fnvars>>

(* a goroutine issues the next remote call of its handler and handles the  *)
(* answer, as Call does for a request served alone                         *)
CallRace ==
    \E g \in Goroutines :
        /\ cur[g].h # "idle"
        /\ resp[g].status = 0
        /\ LET plan == PlanOf(cur[g], NoEnvelope, "fwd")
               step == plan.steps[pc[g] + 1]
               path == pathToArr(step.path)
           IN \E a \in Answers(cur[g].h, step.op, pc[g] + 1) :
                LET r == ConfCall(WireOf(a[1], TNull))
                    verdict == Handle(step.mode, r)
                IN /\ calls' = [calls EXCEPT
                                   ![g] = Append(@, [op |-> step.op, path |-> path,
                                                     res |-> Class(r)])]
                   /\ pc' = [pc EXCEPT ![g] = @ + 1]
                   /\ store' = Apply(store, step.op, path, r)
                   /\ resp' = [resp EXCEPT
                                  ![g] = IF verdict.status # Continue.status THEN verdict
                                         ELSE IF pc[g] + 1 = Len(plan.steps)
                                              THEN FinalReply(cur[g], plan, NilSlice)
                                         ELSE NoResp]
        /\ UNCHANGED <<cur, last, acc, ctx, fnvars>>

NextRace == StartRace \/ CallRace

SpecRace == InitRace /\ [][NextRace]_vars

(* both requests were answered 200 and every call of both was accepted *)
BothReplaced ==
    \A g \in Goroutines :
        /\ cur[g].h = "UpdateAddressGroup"
        /\ resp[g].status = StatusOK
        /\ \A i \in 1..Len(calls[g]) : calls[g][i].res = "ok"

(* the address list the request of goroutine g asked for *)
AskedFor(g) == {cur[g].body.addresses.elems[i] : i \in 1..GoLen(cur[g].body.addresses)}

(* C36: when two UpdateAddressGroup requests for the same group on the     *)
(* same device run concurrently and both return 200, the address list left *)
(* on the device is the list of one of the two requests, never a mix.      *)
C36_Serializable ==
    BothReplaced => \E g \in Goroutines : Members(store, S("G")) = AskedFor(g)

(* both answered 200 with every call accepted, and the device holds both   *)
(* addresses although each request asked for one                           *)
C36_Mixed ==
    /\ BothReplaced
    /\ AskedFor(1) = {Addr1}
    /\ AskedFor(2) = {Addr2}
    /\ Members(store, S("G")) = {Addr1, Addr2}

----------------------------------------------------------------------------
(* the value of field k of a JSON object, null when the field is omitted *)
Picked(x, k) == IF k \in DOMAIN x.o THEN x.o[k] ELSE JNull

(* what a reply says about the entry the parser picks: next hop and        *)
(* distance of a route, and per subnet the start and stop of its range     *)
FirstEntry(body) ==
    IF cur.h = "GetRoute"
    THEN {<<Picked(body, "next_hop"), Picked(body, "distance")>>}
    ELSE {<<body.o["subnets"].a[i].o["subnet"],
            Picked(body.o["subnets"].a[i], "range_start"),
            Picked(body.o["subnets"].a[i], "range_stop")>> :
             i \in 1..Len(body.o["subnets"].a)}

(* a Get of a route or of a DHCP server answered 200 from the tree of the  *)
(* latest answer                                                           *)
Normalized == cur.h \in {"GetRoute", "GetDHCPServer"} /\ resp.status = StatusOK

(* the reply the handler computes from the same tree when the map range    *)
(* yields its keys in order ord                                            *)
ReplyUnder(ord) == PlanOf(cur, ConfCall(last).out, ord).reply.body

(* C37: normalization is deterministic: for the same remote tree two       *)
(* GetRoute calls return the same next_hop and distance and two            *)
(* GetDHCPServer calls the same range_start and range_stop, also when the  *)
(* tree holds more than one next-hop or more than one range entry.         *)
C37_Deterministic ==
    Normalized => \A ord \in Orders : FirstEntry(ReplyUnder(ord)) = FirstEntry(resp.body)

(* a route with two next-hops: this reply names 10.0.0.2 without distance, *)
(* the reply in the other order names 10.0.0.1 with distance 10            *)
C37_Witness ==
    /\ cur.h = "GetRoute"
    /\ resp.status = StatusOK
    /\ Picked(resp.body, "next_hop") = JStr(Addr2)
    /\ Picked(resp.body, "distance") = JNull
    /\ \E ord \in Orders :
          /\ Picked(ReplyUnder(ord), "next_hop") = JStr(Addr1)
          /\ Picked(ReplyUnder(ord), "distance") = JStr(S("10"))

(* a subnet with two range entries: this reply starts at 10.1.0.100, the   *)
(* reply in the other order at 10.1.0.10                                   *)
C37_WitnessRange ==
    /\ cur.h = "GetDHCPServer"
    /\ resp.status = StatusOK
    /\ <<JStr(S("10.1.0.0/24")), JStr(S("10.1.0.100")), JStr(S("10.1.0.199"))>>
          \in FirstEntry(resp.body)
    /\ \E ord \in Orders :
          <<JStr(S("10.1.0.0/24")), JStr(S("10.1.0.10")), JStr(S("10.1.0.99"))>>
             \in FirstEntry(ReplyUnder(ord))

(* with at most one next-hop and at most one range entry per subnet the    *)
(* picked entry does not depend on the order                               *)
SingleEntry ==
    LET cfg == AsMap(ConfCall(last).out.Data)
        atMostOne(v) == ~IsMap(v) \/ Cardinality(DOMAIN v.m) <= 1
    IN IF cur.h = "GetRoute" THEN atMostOne(Index(cfg, "next-hop"))
       ELSE \A k \in DOMAIN AsMap(Index(cfg, "subnet")) :
               atMostOne(Index(AsMap(AsMap(Index(cfg, "subnet"))[k]), "range"))

DeterministicWhenSingle ==
    (Normalized /\ SingleEntry)
    => \A ord \in Orders : FirstEntry(ReplyUnder(ord)) = FirstEntry(resp.body)

----------------------------------------------------------------------------
(* the handlers that address one policy by its name, GetPolicy aside *)
PolicyMutators == {"UpdatePolicy", "DeletePolicy", "AddRule", "DisablePolicy", "EnablePolicy"}

(* the path under which GetPolicy reads the policy called name *)
ReadAt(name) == pathToArr(GetPolicyPath(name))

(* the names ListPolicies gives to the base chains it returns *)
BaseChainNames == {S(baseChainPaths[i].name) : i \in 1..Len(baseChainPaths)}

(* C38: every policy name that ListPolicies returns is addressed by the    *)
(* same remote path in GetPolicy, UpdatePolicy, DeletePolicy, AddRule,     *)
(* DisablePolicy and EnablePolicy; in particular the base chains forward,  *)
(* input and output are read and mutated under the same path.              *)
C38_SamePath ==
    cur.h \in PolicyMutators
    => \A i \in 1..Len(calls) : IsPrefix(ReadAt(cur.vars.policy), calls[i].path)

(* DeletePolicy of the base chain forward deleted firewall ipv4 name       *)
(* forward, which is not under the path GetPolicy reads forward at         *)
C38_Witness ==
    /\ cur.h = "DeletePolicy"
    /\ cur.vars.policy = S("forward")
    /\ cur.vars.policy \in BaseChainNames
    /\ Len(calls) = 1
    /\ calls[1].op = "delete"
    /\ calls[1].path = pathToArr(Words(<<"firewall", "ipv4", "name", "forward">>))
    /\ ReadAt(S("forward")) = pathToArr(Words(<<"firewall", "ipv4", "forward", "filter">>))
    /\ resp.status = StatusNoContent

(* a policy that is not a base chain is addressed under the path GetPolicy *)
(* reads it at                                                             *)
SamePathWhenNamed ==
    (cur.h \in PolicyMutators /\ cur.vars.policy \notin BaseChainNames)
    => \A i \in 1..Len(calls) : IsPrefix(ReadAt(cur.vars.policy), calls[i].path)

----------------------------------------------------------------------------
(* what GetAddressGroup(name) of device dev answers out of the store st *)
GetGroupAfter(st, dev, name) ==
    LET req == Req("GetAddressGroup", dev, [group |-> name], << >>, TRUE, NoFields)
        step == PlanOf(req, NoEnvelope, "fwd").steps[1]
        r == ConfCall(StoredWire(st, pathToArr(step.path)))
        verdict == Handle(step.mode, r)
    IN IF verdict.status # Continue.status THEN verdict
       ELSE FinalReply(req, PlanOf(req, r.out, "fwd"), NilSlice)

(* the UpdateAddressGroup in hand was answered 200 and the device accepted *)
(* every call of it                                                        *)
Replaced200 ==
    /\ cur.h = "UpdateAddressGroup"
    /\ resp.status = StatusOK
    /\ \A i \in 1..Len(calls) : calls[i].res = "ok"

(* two JSON arrays with the same entries, each as often, in any order *)
SameEntries(x, y) ==
    /\ x.j = "array" /\ y.j = "array"
    /\ Len(x.a) = Len(y.a)
    /\ \A e \in {x.a[i] : i \in 1..Len(x.a)} :
          Cardinality({i \in 1..Len(x.a) : x.a[i] = e})
             = Cardinality({i \in 1..Len(y.a) : y.a[i] = e})

(* C39: when every remote call of the request succeeds and no other        *)
(* request runs, the body of the 200 response of an Update equals the      *)
(* representation a Get of the same resource issued immediately afterwards *)
(* returns.  Stated for UpdateAddressGroup, whose resource the store       *)
(* follows, and for the address list of the body: the Get answers 200 and  *)
(* the two lists have the same entries.                                    *)
C39_UpdateEqualsGet ==
    Replaced200
    => LET after == GetGroupAfter(store, cur.dev, cur.vars.group)
       IN /\ after.status = StatusOK
          /\ SameEntries(resp.body.o["addresses"], after.body.o["addresses"])

(* a replacement without addresses: delete and description set accepted,   *)
(* 200 with addresses null, which no Get answers                           *)
C39_Witness ==
    /\ Replaced200
    /\ Len(calls) = 2
    /\ cur.body.addresses = NilSlice
    /\ cur.body.description # << >>
    /\ resp.body.o["addresses"] = JNull
    /\ LET after == GetGroupAfter(store, cur.dev, cur.vars.group)
       IN after.status = StatusOK => after.body.o["addresses"].j = "array"

(* a replacement by one address twice: 200 with two entries, the Get that  *)
(* follows shows one                                                       *)
C39_WitnessTwice ==
    /\ Replaced200
    /\ cur.body.addresses = Slice(<<Addr1, Addr1>>)
    /\ Len(resp.body.o["addresses"].a) = 2
    /\ LET after == GetGroupAfter(store, cur.dev, cur.vars.group)
       IN after.status = StatusOK /\ Len(after.body.o["addresses"].a) = 1

(* with a list of distinct addresses, one at least, the Get that follows   *)
(* shows the entries of the response                                       *)
EqualsGetWhenDistinct ==
    (Replaced200 /\ GoLen(cur.body.addresses) >= 1
     /\ \A i, j \in 1..GoLen(cur.body.addresses) :
           i # j => cur.body.addresses.elems[i] # cur.body.addresses.elems[j])
    => LET after == GetGroupAfter(store, cur.dev, cur.vars.group)
       IN /\ after.status = StatusOK
          /\ SameEntries(resp.body.o["addresses"], after.body.o["addresses"])

----------------------------------------------------------------------------
(* A call that ended with an error hands the handler a nil *Response.  The  *)
(* handler has not looked into it when what it does is the same whatever    *)
(* envelope stands in its place.                                            *)

(* the latest call of the request in hand ended with an error *)
LastFailed == cur.h # "idle" /\ pc >= 1 /\ calls[pc].res = "transport"

(* envelopes a decoded answer could have held *)
Envelopes ==
    [nil : {FALSE}, Success : BOOLEAN,
     Data : {TNull, DataFor(cur.h, pc)[1]}, Error : {<< >>, MsgEmpty, MsgInternal}]

(* the checks of the latest call do not depend on the envelope *)
ChecksBlind ==
    \A e \in Envelopes :
        LET r == ConfCall(last)
            mode == Template[pc].mode
        IN /\ Handle(mode, [out |-> e, err |-> r.err]) = Handle(mode, r)
           /\ \A ord \in Orders :
                 CollectPolicies(pc, acc, [out |-> e, err |-> r.err], ord)
                    = CollectPolicies(pc, acc, r, ord)

(* the response written after the latest call does not depend on it either *)
ReplyBlind ==
    (resp.status # 0 /\ Handle(Template[pc].mode, ConfCall(last)) = Continue)
    => \A e \in Envelopes : \A ord \in Orders :
          FinalReply(cur, PlanOf(cur, e, ord), acc) = resp

(* C40: no handler reads the response envelope of a remote call that       *)
(* returned a transport error: Success, Data and Error of a call's result  *)
(* are accessed only after its error was checked to be nil, so no request  *)
(* can crash on a nil response, the best-effort calls included.            *)
C40_NilEnvelopeUnread == LastFailed => (ChecksBlind /\ ReplyBlind)

(* CreateNetwork whose best-effort description set ended with an error:    *)
(* 201 all the same                                                        *)
C40_Witness ==
    /\ LastFailed
    /\ cur.h = "CreateNetwork"
    /\ pc = 2
    /\ Template[pc].mode = "ignore"
    /\ ConfCall(last).out.nil
    /\ resp.status = StatusCreated

(* ListPolicies whose last base-chain get ended with an error: 200 *)
C40_WitnessChain ==
    /\ LastFailed
    /\ cur.h = "ListPolicies"
    /\ pc = 4
    /\ ConfCall(last).out.nil
    /\ resp.status = StatusOK

(* UpdateNetwork whose delete ended with an error: 502 *)
C40_WitnessDelete ==
    /\ LastFailed
    /\ cur.h = "UpdateNetwork"
    /\ pc = 1
    /\ resp.status = StatusBadGateway

====
